---- MODULE Spec2Model ----
(***************************************************************************)
(* State-machine model of the zapi_async library: the webhook payload      *)
(* parser (types/webhook.py, types/message.py), the value normalisers      *)
(* (_helpers.py), the HTTP transport (api.py) and the client operations    *)
(* (client.py).  Python values are modelled as tagged records so that      *)
(* values of different Python types can be compared.                       *)
(***************************************************************************)
EXTENDS Integers, Sequences, FiniteSets, TLC

VARIABLES
    pc,          \* "idle", or the name of the call that has just completed
    payload,     \* the caller's payload dict object (its current content)
    payload_in,  \* content of that dict when parse_webhook_message was called
    outcome,     \* "none" | "returned" | "raised"
    error,       \* exception class of a raised call, else "none"
    msg,         \* the message object returned by the parser, else NoMsg
    arg,         \* argument of the last helper call
    ret,         \* value returned by the last helper or client call
    call,        \* the client / transport call in progress: operation and arguments
    body,        \* JSON body handed to the HTTP session by that call, else None
    requests,    \* number of HTTP requests the call has issued so far
    response,    \* what the HTTP session answered: a response or a failure
    status_code, \* status_code attribute of the raised error, else None
    session,     \* the client's httpx session: "open" | "closed"
    ctx,         \* the caller's `async with` block: "none" | "inside" | "left"
    opened,      \* the local files the call in progress has read
    frames,      \* the calls of concurrent callers: function, input, result
    active_connections, \* ConnectionManager.active_connections of the viewer
    peers,       \* state of each websocket's browser: "away" | "open" | "gone"
    broadcast,   \* the broadcast in progress in the viewer, and what it has sent
    reply        \* what process_webhook returned to the webhook caller

clientVars == <<call, body, requests, response, status_code, session, ctx>>

\* State of the concurrent callers and of the webhook viewer
appVars == <<frames, active_connections, peers, broadcast, reply>>

sideVars == <<opened, frames, active_connections, peers, broadcast, reply>>

\* State of the library calls made one at a time
libVars == <<pc, payload, payload_in, outcome, error, msg, arg, ret,
             call, body, requests, response, status_code, session, ctx, opened>>

vars == <<pc, payload, payload_in, outcome, error, msg, arg, ret,
          call, body, requests, response, status_code, session, ctx,
          opened, frames, active_connections, peers, broadcast, reply>>

(***************************************************************************)
(* Python / JSON values                                                    *)
(***************************************************************************)
None == [t |-> "null"]
Str(s) == [t |-> "str", s |-> s]
Num(n) == [t |-> "num", n |-> n]
Bool(b) == [t |-> "bool", b |-> b]
List(l) == [t |-> "list", l |-> l]
Dict(o) == [t |-> "obj", o |-> o]
Ptr(id) == [t |-> "ptr", id |-> id]

EmptyMap == [k \in {} |-> None]
EmptyDict == Dict(EmptyMap)

IsDict(v) == v.t = "obj"
Keys(d) == DOMAIN d.o

\* bool(v): Python truthiness, as used by `or` and `if x := ...`
Truthy(v) ==
    CASE v.t = "null" -> FALSE
      [] v.t = "str" -> v.s # ""
      [] v.t = "num" -> v.n # 0
      [] v.t = "bool" -> v.b
      [] v.t = "list" -> Len(v.l) > 0
      [] v.t = "obj" -> DOMAIN v.o # {}
      [] OTHER -> TRUE

\* a or b
PyOr(a, b) == IF Truthy(a) THEN a ELSE b

\* dict.get(key, default)
Get(d, key, default) == IF key \in DOMAIN d.o THEN d.o[key] ELSE default

\* dict.get(key)
GetN(d, key) == Get(d, key, None)

\* Restriction of a map to a subset of its keys
Restrict(f, S) == [k \in S |-> f[k]]

(***************************************************************************)
(* The message dataclasses (types/message.py)                              *)
(***************************************************************************)
KindKeys == {"reaction", "text", "image", "video", "audio", "document",
             "sticker", "location", "contact"}

RequiredFields == {"message_id", "instance_id", "phone", "from_me", "moment",
                   "status", "type"}

\* Fields of BaseWebhookMessage that have a plain default value
BaseDefaults ==
    [chat_name |-> None, is_group |-> Bool(FALSE), is_newsletter |-> Bool(FALSE),
     is_status_reply |-> Bool(FALSE), sender_name |-> None, sender_photo |-> None,
     sender_lid |-> None, photo |-> None, participant_phone |-> None,
     participant_lid |-> None, connected_phone |-> None,
     waiting_message |-> Bool(FALSE), is_edit |-> Bool(FALSE),
     broadcast |-> Bool(FALSE), forwarded |-> Bool(FALSE), from_api |-> Bool(FALSE),
     reference_message_id |-> None, message_expiration_seconds |-> None]

\* _raw: field(default_factory=dict): a fresh dict nobody else references
RawDefault == [_raw |-> Ptr("fresh")]

TextDefaults ==
    [message |-> Str(""), description |-> None, title |-> None, url |-> None,
     thumbnail_url |-> None]

ImageDefaults ==
    [image_url |-> Str(""), thumbnail_url |-> None, caption |-> None,
     mime_type |-> None, width |-> None, height |-> None, view_once |-> Bool(FALSE)]

VideoDefaults ==
    [video_url |-> Str(""), caption |-> None, mime_type |-> None, seconds |-> None,
     view_once |-> Bool(FALSE)]

AudioDefaults ==
    [audio_url |-> Str(""), mime_type |-> None, seconds |-> None,
     ptt |-> Bool(FALSE), view_once |-> Bool(FALSE)]

DocumentDefaults ==
    [document_url |-> Str(""), file_name |-> None, title |-> None,
     page_count |-> None, mime_type |-> None, thumbnail_url |-> None]

StickerDefaults == [sticker_url |-> Str(""), mime_type |-> None]

LocationDefaults ==
    [latitude |-> Num(0), longitude |-> Num(0), name |-> None, address |-> None,
     url |-> None, thumbnail_url |-> None]

ContactDefaults == [display_name |-> Str(""), vcard |-> Str("")]

ReactionDefaults ==
    [emoji |-> Str(""), reaction_time |-> Num(0), reaction_by |-> Str(""),
     referenced_message |-> None]

VariantClasses == {"ReactionMessage", "TextMessage", "ImageMessage", "VideoMessage",
                   "AudioMessage", "DocumentMessage", "StickerMessage",
                   "LocationMessage", "ContactMessage"}

Classes == VariantClasses \cup {"BaseWebhookMessage"}

\* Fields a class adds to BaseWebhookMessage, with their defaults
OwnDefaults(cls) ==
    CASE cls = "TextMessage" -> TextDefaults
      [] cls = "ImageMessage" -> ImageDefaults
      [] cls = "VideoMessage" -> VideoDefaults
      [] cls = "AudioMessage" -> AudioDefaults
      [] cls = "DocumentMessage" -> DocumentDefaults
      [] cls = "StickerMessage" -> StickerDefaults
      [] cls = "LocationMessage" -> LocationDefaults
      [] cls = "ContactMessage" -> ContactDefaults
      [] cls = "ReactionMessage" -> ReactionDefaults
      [] OTHER -> EmptyMap

\* All defaulted fields of a class (dataclass inheritance)
Defaults(cls) == OwnDefaults(cls) @@ BaseDefaults @@ RawDefault

NoMsg == [cls |-> "none", fields |-> EmptyMap]

Returned(m, data) == [outcome |-> "returned", error |-> "none", msg |-> m, data |-> data]
Raised(e, data) == [outcome |-> "raised", error |-> e, msg |-> NoMsg, data |-> data]

\* The generated dataclass __init__: cls(**kwargs)
New(cls, kwargs) ==
    IF /\ DOMAIN kwargs \subseteq (RequiredFields \cup DOMAIN Defaults(cls))
       /\ RequiredFields \subseteq DOMAIN kwargs
    THEN [cls |-> cls, fields |-> kwargs @@ Defaults(cls)]
    ELSE NoMsg

\* base.__dict__ without the names that start with an underscore
PublicDict(m) == Restrict(m.fields, DOMAIN m.fields \ {"_raw"})

\* cls(**kwargs) as a call: TypeError when __init__ rejects the keywords
Construct(cls, kwargs, data) ==
    IF New(cls, kwargs) = NoMsg THEN Raised("TypeError", data)
    ELSE Returned(New(cls, kwargs), data)

\* cls(**splat, k1=v1, ...): a keyword given twice is a TypeError
CallSplat(cls, splat, explicit, data) ==
    IF DOMAIN splat \cap DOMAIN explicit # {} THEN Raised("TypeError", data)
    ELSE Construct(cls, explicit @@ splat, data)

\* Keyword arguments of BaseWebhookMessage.from_dict; _raw=data keeps a
\* reference to the caller's dict
EnvelopeKwargs(data) ==
    [message_id |-> Get(data, "messageId", Str("")),
     instance_id |-> Get(data, "instanceId", Str("")),
     phone |-> Get(data, "phone", Str("")),
     from_me |-> Get(data, "fromMe", Bool(FALSE)),
     moment |-> Get(data, "momment", Get(data, "moment", Num(0))),
     status |-> Get(data, "status", Str("UNKNOWN")),
     type |-> Get(data, "type", Str("ReceivedCallback")),
     chat_name |-> GetN(data, "chatName"),
     is_group |-> Get(data, "isGroup", Bool(FALSE)),
     is_newsletter |-> Get(data, "isNewsletter", Bool(FALSE)),
     is_status_reply |-> Get(data, "isStatusReply", Bool(FALSE)),
     sender_name |-> GetN(data, "senderName"),
     sender_photo |-> GetN(data, "senderPhoto"),
     sender_lid |-> GetN(data, "senderLid"),
     photo |-> GetN(data, "photo"),
     participant_phone |-> GetN(data, "participantPhone"),
     participant_lid |-> GetN(data, "participantLid"),
     connected_phone |-> GetN(data, "connectedPhone"),
     waiting_message |-> Get(data, "waitingMessage", Bool(FALSE)),
     is_edit |-> Get(data, "isEdit", Bool(FALSE)),
     broadcast |-> Get(data, "broadcast", Bool(FALSE)),
     forwarded |-> Get(data, "forwarded", Bool(FALSE)),
     from_api |-> Get(data, "fromApi", Bool(FALSE)),
     reference_message_id |-> GetN(data, "referenceMessageId"),
     message_expiration_seconds |-> GetN(data, "messageExpirationSeconds"),
     _raw |-> Ptr("payload")]

\* Mutant of BaseWebhookMessage.from_dict: renames the misspelled timestamp key
\* in the caller's dict before reading it
from_dict_renames_momment(cls, data) ==
    LET fixed == IF "momment" \in Keys(data)
                 THEN Dict(("moment" :> data.o["momment"])
                           @@ Restrict(data.o, Keys(data) \ {"momment"}))
                 ELSE data
    IN  Construct(cls, EnvelopeKwargs(fixed), fixed)

\* BaseWebhookMessage.from_dict(cls, data): a classmethod, so a subclass that
\* reaches it through super() gets an instance of the subclass itself
BaseWebhookMessage_from_dict(cls, data) == Construct(cls, EnvelopeKwargs(data), data)

TextKwargs(text_data) ==
    [message |-> Get(text_data, "message", Str("")),
     description |-> PyOr(GetN(text_data, "description"), GetN(text_data, "descritpion")),
     title |-> GetN(text_data, "title"),
     url |-> GetN(text_data, "url"),
     thumbnail_url |-> GetN(text_data, "thumbnailUrl"),
     _raw |-> Ptr("payload")]

ImageKwargs(image_data) ==
    [image_url |-> Get(image_data, "imageUrl", Str("")),
     thumbnail_url |-> GetN(image_data, "thumbnailUrl"),
     caption |-> GetN(image_data, "caption"),
     mime_type |-> GetN(image_data, "mimeType"),
     width |-> GetN(image_data, "width"),
     height |-> GetN(image_data, "height"),
     view_once |-> Get(image_data, "viewOnce", Bool(FALSE)),
     _raw |-> Ptr("payload")]

VideoKwargs(video_data) ==
    [video_url |-> Get(video_data, "videoUrl", Str("")),
     caption |-> GetN(video_data, "caption"),
     mime_type |-> GetN(video_data, "mimeType"),
     seconds |-> GetN(video_data, "seconds"),
     view_once |-> Get(video_data, "viewOnce", Bool(FALSE)),
     _raw |-> Ptr("payload")]

AudioKwargs(audio_data) ==
    [audio_url |-> Get(audio_data, "audioUrl", Str("")),
     mime_type |-> GetN(audio_data, "mimeType"),
     seconds |-> GetN(audio_data, "seconds"),
     ptt |-> Get(audio_data, "ptt", Bool(FALSE)),
     view_once |-> Get(audio_data, "viewOnce", Bool(FALSE)),
     _raw |-> Ptr("payload")]

DocumentKwargs(doc_data) ==
    [document_url |-> Get(doc_data, "documentUrl", Str("")),
     file_name |-> GetN(doc_data, "fileName"),
     title |-> GetN(doc_data, "title"),
     page_count |-> GetN(doc_data, "pageCount"),
     mime_type |-> GetN(doc_data, "mimeType"),
     thumbnail_url |-> GetN(doc_data, "thumbnailUrl"),
     _raw |-> Ptr("payload")]

StickerKwargs(sticker_data) ==
    [sticker_url |-> Get(sticker_data, "stickerUrl", Str("")),
     mime_type |-> GetN(sticker_data, "mimeType"),
     _raw |-> Ptr("payload")]

LocationKwargs(loc_data) ==
    [latitude |-> Get(loc_data, "latitude", Num(0)),
     longitude |-> Get(loc_data, "longitude", Num(0)),
     name |-> GetN(loc_data, "name"),
     address |-> GetN(loc_data, "address"),
     url |-> GetN(loc_data, "url"),
     thumbnail_url |-> GetN(loc_data, "thumbnailUrl"),
     _raw |-> Ptr("payload")]

ContactKwargs(contact_data) ==
    [display_name |-> Get(contact_data, "displayName", Str("")),
     vcard |-> Get(contact_data, "vCard", Str("")),
     _raw |-> Ptr("payload")]

\* ReferencedMessage(...) built from reaction.referencedMessage
ReferencedMessage(ref_data) ==
    [t |-> "ReferencedMessage",
     message_id |-> Get(ref_data, "messageId", Str("")),
     from_me |-> Get(ref_data, "fromMe", Bool(FALSE)),
     phone |-> Get(ref_data, "phone", Str("")),
     participant |-> GetN(ref_data, "participant")]

ReactionKwargs(reaction_data, ref_msg) ==
    [emoji |-> Get(reaction_data, "value", Str("")),
     reaction_time |-> Get(reaction_data, "time", Num(0)),
     reaction_by |-> Get(reaction_data, "reactionBy", Str("")),
     referenced_message |-> ref_msg,
     _raw |-> Ptr("payload")]

\* The body shared by the eight plain variants: base = super().from_dict(data);
\* sub = data.get(key, {}); cls(**public fields of base, <own keywords>, _raw=data).
\* The own keywords are evaluated (sub.get(...)) before the call is made.
VariantFromDict(cls, key, data) ==
    LET base == BaseWebhookMessage_from_dict(cls, data)
        sub == Get(base.data, key, EmptyDict)
    IN  IF base.outcome = "raised" THEN base
        ELSE IF ~IsDict(sub) THEN Raised("AttributeError", base.data)
        ELSE CallSplat(cls, PublicDict(base.msg),
                       CASE cls = "TextMessage" -> TextKwargs(sub)
                         [] cls = "ImageMessage" -> ImageKwargs(sub)
                         [] cls = "VideoMessage" -> VideoKwargs(sub)
                         [] cls = "AudioMessage" -> AudioKwargs(sub)
                         [] cls = "DocumentMessage" -> DocumentKwargs(sub)
                         [] cls = "StickerMessage" -> StickerKwargs(sub)
                         [] cls = "LocationMessage" -> LocationKwargs(sub)
                         [] OTHER -> ContactKwargs(sub),
                       base.data)

TextMessage_from_dict(data) == VariantFromDict("TextMessage", "text", data)
ImageMessage_from_dict(data) == VariantFromDict("ImageMessage", "image", data)
VideoMessage_from_dict(data) == VariantFromDict("VideoMessage", "video", data)
AudioMessage_from_dict(data) == VariantFromDict("AudioMessage", "audio", data)
DocumentMessage_from_dict(data) == VariantFromDict("DocumentMessage", "document", data)
StickerMessage_from_dict(data) == VariantFromDict("StickerMessage", "sticker", data)
LocationMessage_from_dict(data) == VariantFromDict("LocationMessage", "location", data)
ContactMessage_from_dict(data) == VariantFromDict("ContactMessage", "contact", data)

ReactionMessage_from_dict(data) ==
    LET base == BaseWebhookMessage_from_dict("ReactionMessage", data)
        reaction_data == Get(base.data, "reaction", EmptyDict)
        ref_data == GetN(reaction_data, "referencedMessage")
    IN  IF base.outcome = "raised" THEN base
        ELSE IF ~IsDict(reaction_data) THEN Raised("AttributeError", base.data)
        ELSE IF Truthy(ref_data) /\ ~IsDict(ref_data)
             THEN Raised("AttributeError", base.data)
        ELSE CallSplat("ReactionMessage", PublicDict(base.msg),
                       ReactionKwargs(reaction_data,
                                      IF Truthy(ref_data) THEN ReferencedMessage(ref_data)
                                      ELSE None),
                       base.data)

(***************************************************************************)
(* The classifier (types/webhook.py)                                       *)
(***************************************************************************)
\* Mutant of parse_webhook_message: the fallback treats an unknown payload as text
parse_falls_back_to_text(p) ==
    IF "reaction" \in Keys(p) THEN ReactionMessage_from_dict(p)
    ELSE IF "text" \in Keys(p) THEN TextMessage_from_dict(p)
    ELSE IF "image" \in Keys(p) THEN ImageMessage_from_dict(p)
    ELSE IF "video" \in Keys(p) THEN VideoMessage_from_dict(p)
    ELSE IF "audio" \in Keys(p) THEN AudioMessage_from_dict(p)
    ELSE IF "document" \in Keys(p) THEN DocumentMessage_from_dict(p)
    ELSE IF "sticker" \in Keys(p) THEN StickerMessage_from_dict(p)
    ELSE IF "location" \in Keys(p) THEN LocationMessage_from_dict(p)
    ELSE IF "contact" \in Keys(p) THEN ContactMessage_from_dict(p)
    ELSE BaseWebhookMessage_from_dict("TextMessage", p)

parse_webhook_message(p) ==
    IF "reaction" \in Keys(p) THEN ReactionMessage_from_dict(p)
    ELSE IF "text" \in Keys(p) THEN TextMessage_from_dict(p)
    ELSE IF "image" \in Keys(p) THEN ImageMessage_from_dict(p)
    ELSE IF "video" \in Keys(p) THEN VideoMessage_from_dict(p)
    ELSE IF "audio" \in Keys(p) THEN AudioMessage_from_dict(p)
    ELSE IF "document" \in Keys(p) THEN DocumentMessage_from_dict(p)
    ELSE IF "sticker" \in Keys(p) THEN StickerMessage_from_dict(p)
    ELSE IF "location" \in Keys(p) THEN LocationMessage_from_dict(p)
    ELSE IF "contact" \in Keys(p) THEN ContactMessage_from_dict(p)
    ELSE BaseWebhookMessage_from_dict("BaseWebhookMessage", p)

\* msg._raw dereferenced in the current state
RawOf(m) == IF m.fields["_raw"] = Ptr("payload") THEN payload ELSE EmptyDict

(***************************************************************************)
(* The value normalisers (_helpers.py).  A Python str is modelled as a     *)
(* sequence of one-character strings, so that characters can be inspected. *)
(***************************************************************************)
Text(c) == [t |-> "chars", c |-> c]
PyInt(n) == [t |-> "int", n |-> n]

Digits == {"0", "1", "2", "3", "4", "5", "6", "7", "8", "9"}
DigitChars == <<"0", "1", "2", "3", "4", "5", "6", "7", "8", "9">>

\* Decimal digits of a natural number, most significant first
RECURSIVE Decimal(_)
Decimal(n) ==
    IF n < Len(DigitChars) THEN <<DigitChars[n + 1]>>
    ELSE Decimal(n \div Len(DigitChars)) \o <<DigitChars[(n % Len(DigitChars)) + 1]>>

\* str(x) for a str or an int
PyStr(x) ==
    IF x.t = "int"
    THEN (IF x.n < 0 THEN <<"-">> \o Decimal(0 - x.n) ELSE Decimal(x.n))
    ELSE x.c

\* \d of the re module, restricted to ASCII input
IsDigit(c) == c \in Digits

MinPhoneDigits == 10

HelperReturned(v) == [outcome |-> "returned", error |-> "none", value |-> v]
HelperRaised(e) == [outcome |-> "raised", error |-> e, value |-> None]

\* Mutant of format_phone: a national number gets the country code prepended
format_phone_adds_country_code(phone) ==
    LET digits_only == SelectSeq(PyStr(phone), IsDigit)
    IN  IF Len(digits_only) = 0 THEN HelperRaised("ValidationError")
        ELSE IF Len(digits_only) < MinPhoneDigits THEN HelperRaised("ValidationError")
        ELSE IF Len(digits_only) <= MinPhoneDigits + 1
             THEN HelperReturned(Text(<<"5", "5">> \o digits_only))
        ELSE HelperReturned(Text(digits_only))

format_phone(phone) ==
    LET phone_str == PyStr(phone)
        digits_only == SelectSeq(phone_str, IsDigit)
    IN  IF Len(digits_only) = 0 THEN HelperRaised("ValidationError")
        ELSE IF Len(digits_only) < MinPhoneDigits THEN HelperRaised("ValidationError")
        ELSE HelperReturned(Text(digits_only))

\* sub in s
Contains(s, sub) ==
    \E i \in 0..(Len(s) - Len(sub)) : SubSeq(s, i + 1, i + Len(sub)) = sub

\* s.endswith(suffix)
EndsWith(s, suffix) ==
    /\ Len(s) >= Len(suffix)
    /\ SubSeq(s, Len(s) - Len(suffix) + 1, Len(s)) = suffix

GroupMarker == <<"-", "g", "r", "o", "u", "p">>

is_group_id(chat_id) ==
    Bool(\/ Contains(chat_id.c, GroupMarker)
         \/ (/\ Contains(chat_id.c, <<"-">>)
             /\ ~EndsWith(chat_id.c, GroupMarker)
             /\ ~Contains(chat_id.c, <<"@">>)))

\* The three backticks of the monospace wrapper, as one character of a text
\* (a TLA+ string cannot hold a backtick)
Fence == "<3 backticks>"

\* f"{m}{text}{m}"
Wrapped(m, text) == <<m>> \o text \o <<m>>

\* Variant of format_text_markdown that applies italic before bold
format_text_markdown_italic_first(text, bold, italic, strikethrough, monospace) ==
    LET t1 == IF italic THEN Wrapped("_", text) ELSE text
        t2 == IF bold THEN Wrapped("*", t1) ELSE t1
        t3 == IF strikethrough THEN Wrapped("~", t2) ELSE t2
        t4 == IF monospace THEN Wrapped(Fence, t3) ELSE t3
    IN  t4

\* format_text_markdown: four `if` statements in a row, each rebinding text
format_text_markdown(text, bold, italic, strikethrough, monospace) ==
    LET t1 == IF bold THEN Wrapped("*", text) ELSE text
        t2 == IF italic THEN Wrapped("_", t1) ELSE t1
        t3 == IF strikethrough THEN Wrapped("~", t2) ELSE t2
        t4 == IF monospace THEN Wrapped(Fence, t3) ELSE t3
    IN  t4

(***************************************************************************)
(* Errors (errors.py) and the HTTP transport (api.py)                      *)
(***************************************************************************)
\* The classes derived from ZAPIError
ErrorSubclasses ==
    {"AuthenticationError", "InstanceError", "RateLimitError", "MessageError",
     "WebhookError", "ValidationError", "MediaError", "GroupError", "NetworkError"}

\* Outcome of a transport or client call
ApiReturned(v) ==
    [outcome |-> "returned", error |-> "none", status_code |-> None, value |-> v]

\* raise cls(message, status_code=sc)
ApiRaised(cls, sc) ==
    [outcome |-> "raised", error |-> cls, status_code |-> sc, value |-> None]

\* What `await self._session.request(...)` produced
Response(status, json) == [kind |-> "response", status_code |-> status, json |-> json]
Failure(exc) == [kind |-> "failure", exc |-> exc]
NoResponse == [kind |-> "none"]

\* A response body on which response.json() raises
InvalidJson == [t |-> "invalid"]

\* Classes caught by `except httpx.TimeoutException`
httpx_TimeoutException ==
    {"httpx.ConnectTimeout", "httpx.ReadTimeout", "httpx.WriteTimeout",
     "httpx.PoolTimeout"}

\* Classes caught by `except httpx.NetworkError`
httpx_NetworkError ==
    {"httpx.ConnectError", "httpx.ReadError", "httpx.WriteError", "httpx.CloseError"}

\* The other exceptions an httpx session raises from request()
httpx_Other ==
    {"httpx.RemoteProtocolError", "httpx.LocalProtocolError", "httpx.ProxyError",
     "httpx.UnsupportedProtocol", "httpx.DecodingError", "httpx.TooManyRedirects"}

\* Variant of _handle_error that reports 403 as a generic request failure
handle_error_forbidden_is_generic(resp) ==
    LET sc == resp.status_code
    IN  IF sc = 401 THEN ApiRaised("AuthenticationError", Num(sc))
        ELSE IF sc = 404 THEN ApiRaised("InstanceError", Num(sc))
        ELSE IF sc = 405 THEN ApiRaised("ValidationError", Num(sc))
        ELSE IF sc = 415 THEN ApiRaised("ValidationError", Num(sc))
        ELSE IF sc = 429 THEN ApiRaised("RateLimitError", Num(sc))
        ELSE ApiRaised("ZAPIError", Num(sc))

\* GraphAPI._handle_error: the error class is chosen by the status alone; the
\* response body only contributes the message text
_handle_error(resp) ==
    LET sc == resp.status_code
    IN  IF sc \in {401, 403} THEN ApiRaised("AuthenticationError", Num(sc))
        ELSE IF sc = 404 THEN ApiRaised("InstanceError", Num(sc))
        ELSE IF sc = 405 THEN ApiRaised("ValidationError", Num(sc))
        ELSE IF sc = 415 THEN ApiRaised("ValidationError", Num(sc))
        ELSE IF sc = 429 THEN ApiRaised("RateLimitError", Num(sc))
        ELSE IF sc >= 500 THEN ApiRaised("ZAPIError", Num(sc))
        ELSE ApiRaised("ZAPIError", Num(sc))

\* Variant of _make_request without the `except httpx.NetworkError` clause
make_request_without_network_clause(resp) ==
    IF resp.kind = "response"
    THEN IF resp.status_code >= 400 THEN _handle_error(resp)
         ELSE IF resp.json = InvalidJson THEN ApiReturned(EmptyDict)
         ELSE ApiReturned(resp.json)
    ELSE IF resp.exc \in httpx_TimeoutException THEN ApiRaised("NetworkError", None)
    ELSE ApiRaised(resp.exc, None)

\* GraphAPI._make_request from the point where the session has answered.
\* The errors raised by _handle_error are not httpx exceptions, so none of
\* the except clauses catches them; `except httpx.HTTPStatusError` cannot fire
\* because raise_for_status() is never called; any other exception propagates.
_make_request(resp) ==
    IF resp.kind = "response"
    THEN IF resp.status_code >= 400 THEN _handle_error(resp)
         ELSE IF resp.json = InvalidJson THEN ApiReturned(EmptyDict)
         ELSE ApiReturned(resp.json)
    ELSE IF resp.exc \in httpx_TimeoutException THEN ApiRaised("NetworkError", None)
    ELSE IF resp.exc \in httpx_NetworkError THEN ApiRaised("NetworkError", None)
    ELSE ApiRaised(resp.exc, None)

(***************************************************************************)
(* Request bodies and media arguments (_helpers.py)                        *)
(***************************************************************************)
\* Variant of build_request_body that drops every falsy value
build_request_body_drops_falsy(kwargs) ==
    Restrict(kwargs, {k \in DOMAIN kwargs : Truthy(kwargs[k])})

\* {k: v for k, v in kwargs.items() if v is not None}
build_request_body(kwargs) ==
    Restrict(kwargs, {k \in DOMAIN kwargs : kwargs[k] # None})

\* A pathlib.Path object; a str is a Text.  Both are sequences of tokens:
\* a scheme ("https:"), "//", a host, "/", a name, an extension (".jpg"), ...
PathObj(c) == [t |-> "path", c |-> c]

UrlSchemes == {"http:", "https:", "ftp:", "data:"}

\* urlparse(value): the scheme and the network location
UrlScheme(c) == IF Len(c) >= 1 /\ c[1] \in UrlSchemes THEN c[1] ELSE ""
UrlNetloc(c) ==
    LET rest == IF UrlScheme(c) = "" THEN c ELSE Tail(c)
    IN  IF Len(rest) >= 2 /\ rest[1] = "//" /\ rest[2] \notin {"/", "?", "#"}
        THEN rest[2] ELSE ""

\* all([result.scheme, result.netloc])
is_url(value) == Bool(UrlScheme(value.c) # "" /\ UrlNetloc(value.c) # "")

\* value.startswith('data:') and ';base64,' in value
is_base64(value) ==
    Bool(/\ Len(value.c) >= 1
         /\ value.c[1] = "data:"
         /\ \E i \in 1..Len(value.c) : value.c[i] = ";base64,")

\* The local files that exist
Files == {<<"/", "tmp", "/", "photo", ".jpg">>, <<"report", ".pdf">>}

\* Path(p).name: the last component
RECURSIVE PathName(_)
PathName(c) ==
    IF \E i \in 1..Len(c) : c[i] = "/"
    THEN PathName(Tail(c))
    ELSE c

\* get_mime_type: chosen by the extension
get_mime_type(c) ==
    LET extension == IF Len(c) = 0 THEN "" ELSE c[Len(c)]
    IN  CASE extension = ".jpg" -> "image/jpeg"
          [] extension = ".png" -> "image/png"
          [] extension = ".mp4" -> "video/mp4"
          [] extension = ".mp3" -> "audio/mpeg"
          [] extension = ".pdf" -> "application/pdf"
          [] OTHER -> "application/octet-stream"

\* encode_base64(file_path): a data URI of the file content, or ValidationError
encode_base64(file_path) ==
    IF file_path.c \notin Files THEN HelperRaised("ValidationError")
    ELSE HelperReturned(Text(<<"data:", get_mime_type(file_path.c), ";base64,",
                                "QUJD">>))

\* The files encode_base64(file_path) reads: open(path, 'rb') once the path
\* is known to exist
ReadBy_encode_base64(file_path) ==
    IF file_path.c \notin Files THEN {} ELSE {file_path.c}

(***************************************************************************)
(* Objects built from API responses (types/sent.py, instance.py, group.py) *)
(***************************************************************************)
\* data.get(...) on a value that is not a dict raises AttributeError
FromDict(data, fields) ==
    IF ~IsDict(data) THEN ApiRaised("AttributeError", None) ELSE ApiReturned(fields)

\* Variant of SentMessage.from_dict whose id does not fall back to messageId
SentMessage_from_dict_without_fallback(data) ==
    FromDict(data, [cls |-> "SentMessage",
                    zaap_id |-> Get(data, "zaapId", Str("")),
                    message_id |-> Get(data, "messageId", Str("")),
                    id |-> Get(data, "id", Str(""))])

SentMessage_from_dict(data) ==
    FromDict(data, [cls |-> "SentMessage",
                    zaap_id |-> Get(data, "zaapId", Str("")),
                    message_id |-> Get(data, "messageId", Str("")),
                    id |-> Get(data, "id", Get(data, "messageId", Str("")))])

InstanceStatus_from_dict(data) ==
    FromDict(data, [cls |-> "InstanceStatus",
                    connected |-> Get(data, "connected", Bool(FALSE)),
                    status |-> Get(data, "status", Str("unknown")),
                    phone |-> GetN(data, "phone")])

QRCode_from_dict(data) ==
    IF data.t = "str"
    THEN ApiReturned([cls |-> "QRCode", value |-> data, image |-> None])
    ELSE FromDict(data, [cls |-> "QRCode",
                         value |-> Get(data, "value", Get(data, "qrcode", Str(""))),
                         image |-> GetN(data, "image")])

PhoneCode_from_dict(data) ==
    FromDict(data, [cls |-> "PhoneCode",
                    code |-> Get(data, "code", Str("")),
                    phone |-> Get(data, "phone", Str(""))])

GroupCreated_from_dict(data) ==
    FromDict(data, [cls |-> "GroupCreated",
                    group_id |-> Get(data, "groupId", Get(data, "id", Str(""))),
                    invite_link |-> GetN(data, "inviteLink")])

(***************************************************************************)
(* Client operations (client.py): the code that runs before the request    *)
(***************************************************************************)
\* The request an operation is about to issue, or the error it raised first
Prepared(method, endpoint, json) ==
    [outcome |-> "returned", error |-> "none", method |-> method,
     endpoint |-> endpoint, json |-> json, opened |-> {}]
PrepareRaised(e) ==
    [outcome |-> "raised", error |-> e, method |-> "", endpoint |-> <<>>,
     json |-> None, opened |-> {}]

Raises(r) == r.outcome = "raised"

\* Variant of IsFilePath without the is_base64 test
IsFilePath_without_is_base64(x) ==
    x.t = "path" \/ (x.t = "chars" /\ ~is_url(x).b)

\* isinstance(x, Path) or (isinstance(x, str) and not is_url(x) and not is_base64(x))
IsFilePath(x) ==
    x.t = "path" \/ (x.t = "chars" /\ ~is_url(x).b /\ ~is_base64(x).b)

\* The media value of a send operation: a file path is replaced by its data
\* URI, anything else is passed on; then str(value)
MediaValue(media) ==
    IF IsFilePath(media) THEN encode_base64(media) ELSE HelperReturned(media)

\* The operation q, having evaluated MediaValue(media) first
MediaRead(media, q) ==
    [q EXCEPT !.opened = IF IsFilePath(media) THEN ReadBy_encode_base64(media)
                         ELSE {}]

Post(endpoint, kwargs) ==
    Prepared("POST", <<endpoint>>, Dict(build_request_body(kwargs)))

get_status(a) == Prepared("GET", <<"status">>, None)

get_qrcode(a) ==
    Prepared("GET", IF Truthy(a.image) THEN <<"qr-code/image">> ELSE <<"qr-code">>, None)

\* Variant of get_phone_code that leaves the validation of the number to
\* the server
get_phone_code_unvalidated(a) ==
    Prepared("GET", <<"phone-code/", Text(SelectSeq(PyStr(a.phone), IsDigit))>>, None)

get_phone_code(a) ==
    LET phone_formatted == format_phone(a.phone)
    IN  IF Raises(phone_formatted) THEN PrepareRaised(phone_formatted.error)
        ELSE Prepared("GET", <<"phone-code/", phone_formatted.value>>, None)

disconnect(a) == Prepared("POST", <<"disconnect">>, None)

\* Variant of send_text that posts the phone as the caller spelled it
send_text_posts_phone_as_given(a) ==
    LET phone == format_phone(a.phone)
    IN  IF Raises(phone) THEN PrepareRaised(phone.error)
        ELSE Post("send-text", [phone |-> Text(PyStr(a.phone)), message |-> a.message,
                                delayMessage |-> a.delay_message,
                                delayTyping |-> a.delay_typing,
                                editMessageId |-> a.edit_message_id])

send_text(a) ==
    LET phone == format_phone(a.phone)
    IN  IF Raises(phone) THEN PrepareRaised(phone.error)
        ELSE Post("send-text", [phone |-> phone.value, message |-> a.message,
                                delayMessage |-> a.delay_message,
                                delayTyping |-> a.delay_typing,
                                editMessageId |-> a.edit_message_id])

send_image(a) ==
    LET image_value == MediaValue(a.image)
        phone == format_phone(a.phone)
    IN  MediaRead(a.image,
            IF Raises(image_value) THEN PrepareRaised(image_value.error)
            ELSE IF Raises(phone) THEN PrepareRaised(phone.error)
            ELSE Post("send-image", [phone |-> phone.value, image |-> image_value.value,
                                     caption |-> a.caption, messageId |-> a.message_id,
                                     delayMessage |-> a.delay_message,
                                     viewOnce |-> a.view_once]))

send_video(a) ==
    LET video_value == MediaValue(a.video)
        phone == format_phone(a.phone)
    IN  MediaRead(a.video,
            IF Raises(video_value) THEN PrepareRaised(video_value.error)
            ELSE IF Raises(phone) THEN PrepareRaised(phone.error)
            ELSE Post("send-video", [phone |-> phone.value, video |-> video_value.value,
                                     caption |-> a.caption, messageId |-> a.message_id,
                                     delayMessage |-> a.delay_message,
                                     viewOnce |-> a.view_once]))

send_audio(a) ==
    LET audio_value == MediaValue(a.audio)
        phone == format_phone(a.phone)
    IN  MediaRead(a.audio,
            IF Raises(audio_value) THEN PrepareRaised(audio_value.error)
            ELSE IF Raises(phone) THEN PrepareRaised(phone.error)
            ELSE Post("send-audio", [phone |-> phone.value, audio |-> audio_value.value,
                                     messageId |-> a.message_id,
                                     delayMessage |-> a.delay_message]))

\* A file path without a file name given takes the name of the file
send_document(a) ==
    LET document_value == MediaValue(a.document)
        filename == IF IsFilePath(a.document) /\ ~Truthy(a.filename)
                    THEN Text(PathName(a.document.c)) ELSE a.filename
        phone == format_phone(a.phone)
    IN  MediaRead(a.document,
            IF Raises(document_value) THEN PrepareRaised(document_value.error)
            ELSE IF Raises(phone) THEN PrepareRaised(phone.error)
            ELSE Post("send-document",
                      [phone |-> phone.value, document |-> document_value.value,
                       fileName |-> filename, caption |-> a.caption,
                       messageId |-> a.message_id, delayMessage |-> a.delay_message]))

send_sticker(a) ==
    LET sticker_value == MediaValue(a.sticker)
        phone == format_phone(a.phone)
    IN  MediaRead(a.sticker,
            IF Raises(sticker_value) THEN PrepareRaised(sticker_value.error)
            ELSE IF Raises(phone) THEN PrepareRaised(phone.error)
            ELSE Post("send-sticker",
                      [phone |-> phone.value, sticker |-> sticker_value.value,
                       messageId |-> a.message_id, delayMessage |-> a.delay_message]))

send_location(a) ==
    LET phone == format_phone(a.phone)
    IN  IF Raises(phone) THEN PrepareRaised(phone.error)
        ELSE Post("send-location",
                  [phone |-> phone.value, latitude |-> a.latitude,
                   longitude |-> a.longitude, name |-> a.name,
                   address |-> a.address, url |-> a.url,
                   messageId |-> a.message_id, delayMessage |-> a.delay_message])

send_contact(a) ==
    LET phone == format_phone(a.phone)
        contactPhone == format_phone(a.contact_phone)
    IN  IF Raises(phone) THEN PrepareRaised(phone.error)
        ELSE IF Raises(contactPhone) THEN PrepareRaised(contactPhone.error)
        ELSE Post("send-contact",
                  [phone |-> phone.value, contactPhone |-> contactPhone.value,
                   contactName |-> a.contact_name, messageId |-> a.message_id,
                   delayMessage |-> a.delay_message])

send_link(a) ==
    LET phone == format_phone(a.phone)
    IN  IF Raises(phone) THEN PrepareRaised(phone.error)
        ELSE Post("send-link",
                  [phone |-> phone.value, message |-> a.message, url |-> a.url,
                   title |-> a.title, description |-> a.description,
                   image |-> a.image, messageId |-> a.message_id,
                   delayMessage |-> a.delay_message])

send_reaction(a) ==
    LET phone == format_phone(a.phone)
    IN  IF Raises(phone) THEN PrepareRaised(phone.error)
        ELSE Post("send-reaction",
                  [phone |-> phone.value, messageId |-> a.message_id,
                   reaction |-> a.emoji, delayMessage |-> a.delay_message])

remove_reaction(a) ==
    LET phone == format_phone(a.phone)
    IN  IF Raises(phone) THEN PrepareRaised(phone.error)
        ELSE Post("send-remove-reaction",
                  [phone |-> phone.value, messageId |-> a.message_id])

send_button_list(a) ==
    LET phone == format_phone(a.phone)
    IN  IF Raises(phone) THEN PrepareRaised(phone.error)
        ELSE Post("send-button-list",
                  [phone |-> phone.value, message |-> a.message,
                   buttonList |-> Dict([buttons |-> a.buttons]),
                   delayMessage |-> a.delay_message])

send_option_list(a) ==
    LET phone == format_phone(a.phone)
    IN  IF Raises(phone) THEN PrepareRaised(phone.error)
        ELSE Post("send-option-list",
                  [phone |-> phone.value, message |-> a.message,
                   optionList |-> Dict([title |-> a.title,
                                        buttonLabel |-> a.button_label,
                                        options |-> a.options]),
                   delayMessage |-> a.delay_message])

\* poll_items = [{"name": option} for option in options]
send_poll(a) ==
    LET poll_items == List([i \in 1..Len(a.options.l) |->
                               Dict([name |-> a.options.l[i]])])
        phone == format_phone(a.phone)
    IN  IF Raises(phone) THEN PrepareRaised(phone.error)
        ELSE Post("send-poll",
                  [phone |-> phone.value, message |-> a.message,
                   poll |-> poll_items, pollMaxOptions |-> a.max_options,
                   delayMessage |-> a.delay_message])

\* formatted_phones = [format_phone(p) for p in phones]
create_group(a) ==
    LET formatted == [i \in 1..Len(a.phones.l) |-> format_phone(a.phones.l[i])]
    IN  IF \E i \in 1..Len(formatted) : Raises(formatted[i])
        THEN PrepareRaised("ValidationError")
        ELSE Post("create-group",
                  [groupName |-> a.group_name,
                   phones |-> List([i \in 1..Len(formatted) |-> formatted[i].value]),
                   autoInvite |-> a.auto_invite])

add_participant(a) ==
    LET phone == format_phone(a.phone)
    IN  IF Raises(phone) THEN PrepareRaised(phone.error)
        ELSE Post("add-participant", [groupId |-> a.group_id, phone |-> phone.value,
                                      autoInvite |-> a.auto_invite])

remove_participant(a) ==
    LET phone == format_phone(a.phone)
    IN  IF Raises(phone) THEN PrepareRaised(phone.error)
        ELSE Post("remove-participant", [groupId |-> a.group_id,
                                         phone |-> phone.value])

promote_to_admin(a) ==
    LET phone == format_phone(a.phone)
    IN  IF Raises(phone) THEN PrepareRaised(phone.error)
        ELSE Post("promote-participant", [groupId |-> a.group_id,
                                          phone |-> phone.value])

demote_admin(a) ==
    LET phone == format_phone(a.phone)
    IN  IF Raises(phone) THEN PrepareRaised(phone.error)
        ELSE Post("demote-participant", [groupId |-> a.group_id,
                                         phone |-> phone.value])

leave_group(a) == Post("leave-group", [groupId |-> a.group_id])

update_group_settings(a) ==
    Post("update-group-settings",
         [groupId |-> a.group_id,
          onlyAdminsCanSend |-> a.only_admins_can_send,
          onlyAdminsCanEditInfo |-> a.only_admins_can_edit_info])

get_groups(a) == Prepared("GET", <<"groups">>, None)

\* The operations that answer with a SentMessage
SendOperations ==
    {"send_text", "send_image", "send_video", "send_audio", "send_document",
     "send_sticker", "send_location", "send_contact", "send_link", "send_reaction",
     "remove_reaction", "send_button_list", "send_option_list", "send_poll"}

Operations ==
    SendOperations \cup
    {"get_status", "get_qrcode", "get_phone_code", "disconnect", "create_group",
     "add_participant", "remove_participant", "promote_to_admin", "demote_admin",
     "leave_group", "update_group_settings", "get_groups"}

\* The body of an operation up to its `await self.api.<method>(...)`
Prepare(op, a) ==
    CASE op = "get_status" -> get_status(a)
      [] op = "get_qrcode" -> get_qrcode(a)
      [] op = "get_phone_code" -> get_phone_code(a)
      [] op = "disconnect" -> disconnect(a)
      [] op = "send_text" -> send_text(a)
      [] op = "send_image" -> send_image(a)
      [] op = "send_video" -> send_video(a)
      [] op = "send_audio" -> send_audio(a)
      [] op = "send_document" -> send_document(a)
      [] op = "send_sticker" -> send_sticker(a)
      [] op = "send_location" -> send_location(a)
      [] op = "send_contact" -> send_contact(a)
      [] op = "send_link" -> send_link(a)
      [] op = "send_reaction" -> send_reaction(a)
      [] op = "remove_reaction" -> remove_reaction(a)
      [] op = "send_button_list" -> send_button_list(a)
      [] op = "send_option_list" -> send_option_list(a)
      [] op = "send_poll" -> send_poll(a)
      [] op = "create_group" -> create_group(a)
      [] op = "add_participant" -> add_participant(a)
      [] op = "remove_participant" -> remove_participant(a)
      [] op = "promote_to_admin" -> promote_to_admin(a)
      [] op = "demote_admin" -> demote_admin(a)
      [] op = "leave_group" -> leave_group(a)
      [] op = "update_group_settings" -> update_group_settings(a)
      [] op = "get_groups" -> get_groups(a)

\* The rest of an operation, once `await self.api.<method>(...)` has finished
Complete(op, r) ==
    IF r.outcome = "raised" THEN r
    ELSE CASE op \in SendOperations -> SentMessage_from_dict(r.value)
           [] op = "get_status" -> InstanceStatus_from_dict(r.value)
           [] op = "get_qrcode" -> QRCode_from_dict(r.value)
           [] op = "get_phone_code" -> PhoneCode_from_dict(r.value)
           [] op = "create_group" -> GroupCreated_from_dict(r.value)
           [] OTHER -> r

(***************************************************************************)
(* Webhook payloads delivered to the parser                                *)
(***************************************************************************)
MaxMoment == 2

\* Marker of a key left out of a generated payload
Absent == [t |-> "absent"]

Entry(k, v) == IF v = Absent THEN EmptyMap ELSE (k :> v)

\* Values a vendor or attacker may put under a kind key
KindValues == {None, Str("s"), Num(1), Bool(TRUE), List(<<>>), EmptyDict,
               Dict([message |-> Str("m")])}

Moments == {Num(n) : n \in 1..MaxMoment}

OptKind == {EmptyMap} \cup {k :> EmptyDict : k \in KindKeys}

\* Any subset of the nine kind keys, each with an object value
KindSubsetPayloads == {Dict([k \in S |-> EmptyDict]) : S \in SUBSET KindKeys}

\* One kind key with any shape of value, alone or next to a second kind key
KindShapePayloads ==
    {Dict((k1 :> v1) @@ o2) : k1 \in KindKeys, v1 \in KindValues, o2 \in OptKind}

\* moment / momment present or absent, with or without a kind key
TimestampPayloads ==
    {Dict(Entry("moment", mo) @@ Entry("momment", mm) @@ o
          @@ Entry("messageId", id)) :
        mo \in Moments \cup {Absent}, mm \in Moments \cup {Absent}, o \in OptKind,
        id \in {Absent, Str("MSG1")}}

\* Envelope-only payloads
EnvelopePayloads ==
    {Dict(Entry("messageId", id) @@ Entry("phone", ph) @@ Entry("fromMe", fm)
          @@ Entry("status", st) @@ Entry("isGroup", ig) @@ Entry("chatName", cn)) :
        id \in {Absent, Str("MSG1")}, ph \in {Absent, Str("5511999999999")},
        fm \in {Absent, Bool(TRUE)}, st \in {Absent, Str("RECEIVED")},
        ig \in {Absent, Bool(TRUE)}, cn \in {Absent, Str("chat")}}

\* Text payloads with every combination of description / descritpion
TextPayloads ==
    {Dict("text" :> Dict(Entry("message", m) @@ Entry("description", d)
                         @@ Entry("descritpion", t))) :
        m \in {Absent, Str("Test")},
        d \in {Absent, None, Str(""), Str("d")},
        t \in {Absent, None, Str(""), Str("Typo in API")}}

\* Reaction payloads with and without a referenced message
ReactionPayloads ==
    {Dict("reaction" :> Dict(Entry("value", v) @@ Entry("referencedMessage", r))) :
        v \in {Absent, Str("+1")},
        r \in {Absent, None, EmptyDict, Dict("messageId" :> Str("MSG0")),
               Dict([messageId |-> Str("MSG0"), fromMe |-> Bool(TRUE),
                     phone |-> Str("5511999999999")])}}

\* The documented delivery statuses
StatusEnum == {Str("PENDING"), Str("SENT"), Str("RECEIVED"), Str("READ"),
               Str("PLAYED"), Str("UNKNOWN")}

\* status absent, documented, undocumented or not a string
StatusPayloads ==
    {Dict(Entry("status", st) @@ o) :
        st \in StatusEnum \cup {Absent, None, Str("DELIVERED"), Str("read"), Num(1)},
        o \in OptKind}

\* Envelope keys present with null
NullPayloads ==
    {Dict(Entry("messageId", id) @@ Entry("fromMe", fm) @@ Entry("isGroup", ig)
          @@ Entry("momment", mm) @@ o) :
        id \in {Absent, None}, fm \in {Absent, None}, ig \in {Absent, None},
        mm \in {Absent, None}, o \in {EmptyMap, "text" :> EmptyDict,
                                       "text" :> Dict("message" :> None)}}

PayloadInputs ==
    KindSubsetPayloads \cup KindShapePayloads \cup TimestampPayloads
        \cup EnvelopePayloads \cup TextPayloads \cup ReactionPayloads
        \cup StatusPayloads \cup NullPayloads

(***************************************************************************)
(* Arguments given to the normalisers                                      *)
(***************************************************************************)
MaxPhoneLen == 11
MaxIdParts == 4

PhoneAlphabet == {"1", "9", "-"}

\* Every string over PhoneAlphabet up to MaxPhoneLen characters, the formatted
\* numbers of the test-suite, and some integers
PhoneInputs ==
    {Text(c) : c \in UNION {[1..n -> PhoneAlphabet] : n \in 0..MaxPhoneLen}}
    \cup {Text(<<"+", "5", "5", " ", "1", "1", " ", "9", "9", "9", "9", "9", "-",
                 "9", "9", "9", "9">>),
          Text(<<"(", "1", "1", ")", " ", "9", "9", "9", "9", "9", "-",
                 "9", "9", "9", "9">>),
          Text(<<" ", " ", " ">>),
          Text(<<"a", "b", "c">>)}
    \cup {PyInt(n) : n \in {0, 5511, 999999999, 1000000000, 1234567890, 2147483647,
                          -1234567890, -5}}

IdTokens == {<<"5">>, <<"-">>, <<"g", "r", "o", "u", "p">>, <<"@">>, <<"x">>}

RECURSIVE Flatten(_)
Flatten(parts) == IF parts = <<>> THEN <<>> ELSE Head(parts) \o Flatten(Tail(parts))

\* Every concatenation of up to MaxIdParts tokens
IdInputs ==
    {Text(Flatten(parts)) : parts \in UNION {[1..n -> IdTokens] : n \in 0..MaxIdParts}}

(***************************************************************************)
(* Calls made on the client and answers of the HTTP session                *)
(***************************************************************************)
ValidPhone ==
    Text(<<"(", "1", "1", ")", " ", "9", "9", "9", "9", "9", "-", "9", "9", "9", "9">>)
ShortPhone == Text(<<"1", "2", "3">>)
PhoneArgs == {ValidPhone, ShortPhone}

\* Other spellings of the same subscriber number, and a number given as int
InternationalPhone ==
    Text(<<"+", "5", "5", " ", "1", "1", " ", "9", "9", "9", "9", "9", "-",
           "9", "9", "9", "9">>)
NationalDigits == Text(<<"1", "1", "9", "9", "9", "9", "9", "9", "9", "9", "9">>)
IntegerPhone == PyInt(1199999999)
SpelledPhones == {InternationalPhone, NationalDigits, IntegerPhone}

UrlMedia == Text(<<"https:", "//", "example.com", "/", "image", ".jpg">>)
DataUriMedia == Text(<<"data:", "image/png", ";base64,", "AAAA">>)
FileMedia == Text(<<"/", "tmp", "/", "photo", ".jpg">>)
MissingMedia == Text(<<"missing", ".jpg">>)
PathMedia == PathObj(<<"report", ".pdf">>)
MediaArgs == {UrlMedia, DataUriMedia, FileMedia, MissingMedia, PathMedia}

\* The keyword parameters of each operation with their declared defaults
OptionalDefaults(op) ==
    CASE op = "get_qrcode" -> [image |-> Bool(FALSE)]
      [] op = "send_text" ->
            [delay_message |-> None, delay_typing |-> None, edit_message_id |-> None]
      [] op \in {"send_image", "send_video"} ->
            [caption |-> None, message_id |-> None, delay_message |-> None,
             view_once |-> Bool(FALSE)]
      [] op \in {"send_audio", "send_sticker", "send_contact"} ->
            [message_id |-> None, delay_message |-> None]
      [] op = "send_document" ->
            [filename |-> None, caption |-> None, message_id |-> None,
             delay_message |-> None]
      [] op = "send_location" ->
            [name |-> None, address |-> None, url |-> None, message_id |-> None,
             delay_message |-> None]
      [] op = "send_link" ->
            [title |-> None, description |-> None, image |-> None,
             message_id |-> None, delay_message |-> None]
      [] op \in {"send_reaction", "send_button_list", "send_option_list"} ->
            [delay_message |-> None]
      [] op = "send_poll" -> [max_options |-> None, delay_message |-> None]
      [] op \in {"create_group", "add_participant"} -> [auto_invite |-> Bool(TRUE)]
      [] op = "update_group_settings" ->
            [only_admins_can_send |-> None, only_admins_can_edit_info |-> None]
      [] OTHER -> EmptyMap

\* The name under which an operation posts each keyword parameter
BodyKey(param) ==
    CASE param = "delay_message" -> "delayMessage"
      [] param = "delay_typing" -> "delayTyping"
      [] param = "edit_message_id" -> "editMessageId"
      [] param = "message_id" -> "messageId"
      [] param = "view_once" -> "viewOnce"
      [] param = "filename" -> "fileName"
      [] param = "max_options" -> "pollMaxOptions"
      [] param = "auto_invite" -> "autoInvite"
      [] param = "only_admins_can_send" -> "onlyAdminsCanSend"
      [] param = "only_admins_can_edit_info" -> "onlyAdminsCanEditInfo"
      [] OTHER -> param

\* The value a caller passes for a keyword parameter it sets
SampleValue(param) ==
    CASE param = "delay_message" -> Num(0)
      [] param \in {"delay_typing", "max_options"} -> Num(5)
      [] param \in {"view_once", "image"} -> Bool(TRUE)
      [] param \in {"auto_invite", "only_admins_can_send",
                    "only_admins_can_edit_info"} -> Bool(FALSE)
      [] OTHER -> Str("given")

Buttons == List(<<Dict([id |-> Str("1"), label |-> Str("Yes")])>>)
GroupId == Str("120363019502650977-group")

\* The positional arguments of each operation
RequiredArgs(op) ==
    CASE op = "send_text" ->
            {[phone |-> ph, message |-> Str("Hello")] : ph \in PhoneArgs \cup SpelledPhones}
      [] op = "send_link" ->
            {[phone |-> ph, message |-> Str("Hello"), url |-> Str("https://example.com")]
                : ph \in PhoneArgs}
      [] op = "get_phone_code" -> {[phone |-> ph] : ph \in PhoneArgs}
      [] op = "send_image" -> {[phone |-> ph, image |-> m] : ph \in PhoneArgs, m \in MediaArgs}
      [] op = "send_video" -> {[phone |-> ph, video |-> m] : ph \in PhoneArgs, m \in MediaArgs}
      [] op = "send_audio" -> {[phone |-> ph, audio |-> m] : ph \in PhoneArgs, m \in MediaArgs}
      [] op = "send_document" ->
            {[phone |-> ph, document |-> m] : ph \in PhoneArgs, m \in MediaArgs}
      [] op = "send_sticker" ->
            {[phone |-> ph, sticker |-> m] : ph \in PhoneArgs, m \in MediaArgs}
      [] op = "send_location" ->
            {[phone |-> ph, latitude |-> Num(-23), longitude |-> Num(-46)]
                : ph \in PhoneArgs}
      [] op = "send_contact" ->
            {[phone |-> ph, contact_phone |-> cp, contact_name |-> Str("Ann")]
                : ph \in PhoneArgs, cp \in PhoneArgs}
      [] op \in {"send_reaction", "remove_reaction"} ->
            {[phone |-> ph, message_id |-> Str("MSG1"), emoji |-> Str("+1")]
                : ph \in PhoneArgs}
      [] op = "send_button_list" ->
            {[phone |-> ph, message |-> Str("Hello"), buttons |-> Buttons]
                : ph \in PhoneArgs}
      [] op = "send_option_list" ->
            {[phone |-> ph, message |-> Str("Hello"), title |-> Str("Menu"),
              button_label |-> Str("Open"), options |-> Buttons] : ph \in PhoneArgs}
      [] op = "send_poll" ->
            {[phone |-> ph, message |-> Str("Hello"),
              options |-> List(<<Str("a"), Str("b")>>)] : ph \in PhoneArgs}
      [] op = "create_group" ->
            {[group_name |-> Str("Team"), phones |-> List(phs)]
                : phs \in {<<>>, <<ValidPhone>>, <<ValidPhone, ShortPhone>>}}
      [] op \in {"add_participant", "remove_participant", "promote_to_admin",
                 "demote_admin"} ->
            {[group_id |-> GroupId, phone |-> ph] : ph \in PhoneArgs}
      [] op \in {"leave_group", "update_group_settings"} -> {[group_id |-> GroupId]}
      [] OTHER -> {EmptyMap}

MediaParams == {"image", "video", "audio", "document", "sticker"}

\* Keyword parameters are combined freely with a URL media argument; the other
\* media arguments are explored with the file name alone
Explored(op, req, given) ==
    \/ op \notin {"send_image", "send_video", "send_audio", "send_document",
                  "send_sticker"}
    \/ \E m \in MediaParams \cap DOMAIN req : req[m] = UrlMedia
    \/ given \subseteq {"filename"}

\* A call: the operation, the bound arguments, and the keyword parameters set
CallsOf(op) ==
    {[op |-> op,
      args |-> [p \in given |-> SampleValue(p)] @@ req @@ OptionalDefaults(op),
      given |-> given] :
        <<req, given>> \in {x \in RequiredArgs(op) \X SUBSET DOMAIN OptionalDefaults(op) :
                               Explored(op, x[1], x[2])}}

ClientCalls == UNION {CallsOf(op) : op \in Operations}

NoCall == [op |-> "none", args |-> EmptyMap, given |-> {}]

\* JSON bodies an answer may carry
ResponseBodies ==
    {EmptyDict,
     Dict([zaapId |-> Str("Z1"), messageId |-> Str("M1"), id |-> Str("I1")]),
     Dict([zaapId |-> Str("Z1"), messageId |-> Str("M1")]),
     Dict([zaapId |-> Str("Z1"), messageId |-> Str("M1"), id |-> None]),
     Dict([id |-> Str("I1")]),
     Dict([connected |-> Bool(TRUE), value |-> Str("QR"), code |-> Str("C1"),
           groupId |-> Str("G1")]),
     List(<<>>),
     Str("QR")}

\* Every status an HTTP response can carry, and the bodies with some of them
Responses ==
    {Response(s, InvalidJson) : s \in 100..599}
        \cup {Response(s, b) : s \in {200, 201, 302}, b \in ResponseBodies}

\* Every exception the session can raise instead of answering
Failures == httpx_TimeoutException \cup httpx_NetworkError \cup httpx_Other

\* Keyword arguments given to build_request_body directly
BodyValues == {None, Bool(FALSE), Num(0), Str(""), Str("x")}
BodyInputs == UNION {[S -> BodyValues] : S \in SUBSET {"a", "b", "c"}}

\* Texts given to format_text_markdown: plain and already marked-up ones
MaxTextLen == 2
TextAlphabet == {"x", "*", "_"}
TextInputs == UNION {[1..n -> TextAlphabet] : n \in 0..MaxTextLen}

\* What a caller does to a parsed message or to its payload afterwards
AssignedFields == {"phone", "moment", "_raw"}
AddedKeys == {"phone", "injected"}
Changed == Str("changed")

(***************************************************************************)
(* Callers that run the parser and the normalisers at the same time        *)
(***************************************************************************)
NCallers == 2
Callers == 1..NCallers

\* A call of one caller: the function, its argument, how far it got, its result
IdleFrame == [fn |-> "none", input |-> None, stage |-> "idle", result |-> None]
NoFrames == [c \in Callers |-> IdleFrame]

\* The calls the callers make
ConcurrentCalls ==
    {[fn |-> "parse_webhook_message", input |-> p] :
        p \in {EmptyDict, Dict("messageId" :> Str("MSG1")),
               Dict("moment" :> Num(1)), Dict("text" :> EmptyDict)}}
    \cup {[fn |-> "format_phone", input |-> ph] :
            ph \in {Text(<<"(", "1", "1", ")", " ", "9", "9", "9", "9", "9", "-",
                           "9", "9", "9", "9">>),
                    Text(<<"1", "2", "3">>), PyInt(1234567890)}}
    \cup {[fn |-> "is_group_id", input |-> id] :
            id \in {Text(<<"5", "-", "5">>), Text(<<"5", "@", "x">>)}}

\* The value or the exception of fn(x), whatever else is running
ResultOf(fn, x) ==
    CASE fn = "parse_webhook_message" ->
            LET r == parse_webhook_message(x)
            IN  [outcome |-> r.outcome, error |-> r.error, value |-> r.msg]
      [] fn = "format_phone" -> format_phone(x)
      [] fn = "is_group_id" -> HelperReturned(is_group_id(x))

\* Variant of ArgumentOf in which the argument is kept in a module-level
\* variable, overwritten by every caller that enters the same function
ArgumentOf_module_global(c) ==
    LET inside == {d \in Callers : /\ frames[d].stage = "running"
                                   /\ frames[d].fn = frames[c].fn}
    IN  frames[CHOOSE d \in inside : \A e \in inside : d >= e].input

\* What the call of caller c reads: its own parameter (`data`, `phone`,
\* `chat_id`), a local of its own frame
ArgumentOf(c) == frames[c].input

(***************************************************************************)
(* The webhook viewer (examples/webhook_app/main.py)                       *)
(***************************************************************************)
MaxSockets == 3
Sockets == 1..MaxSockets

\* The loop variable `connection` before the first and after the last element
NoSocket == MaxSockets + 1

\* No broadcast is running
NoBroadcast ==
    [stage |-> "idle", index |-> 0, connection |-> NoSocket,
     started |-> {}, removed |-> {}, failed |-> {}, owed |-> {},
     sends |-> [w \in Sockets |-> 0]]

\* {"status": "received"}
Received == Dict("status" :> Str("received"))

\* list.remove(x): the list without its first x
RECURSIVE Remove(_, _)
Remove(list, x) ==
    IF list = <<>> THEN <<>>
    ELSE IF Head(list) = x THEN Tail(list)
    ELSE <<Head(list)>> \o Remove(Tail(list), x)

Elements(list) == {list[i] : i \in 1..Len(list)}

\* for connection in self.active_connections: the list iterator keeps an
\* index into the live list, returns list[index] and advances, and stops
\* once the index is past the end of the list as it is now
ListIterNext(b, list) ==
    IF b.index < Len(list)
    THEN [b EXCEPT !.stage = "sending", !.index = b.index + 1,
                   !.connection = list[b.index + 1]]
    ELSE [b EXCEPT !.stage = "returned", !.connection = NoSocket]

(***************************************************************************)
(* State machine                                                           *)
(***************************************************************************)
Init ==
    /\ pc = "idle"
    /\ payload = EmptyDict
    /\ payload_in = EmptyDict
    /\ outcome = "none"
    /\ error = "none"
    /\ msg = NoMsg
    /\ arg = None
    /\ ret = None
    /\ call = NoCall
    /\ body = None
    /\ requests = 0
    /\ response = NoResponse
    /\ status_code = None
    /\ session = "open"
    /\ ctx = "none"
    /\ opened = {}
    /\ frames = NoFrames
    /\ active_connections = <<>>
    /\ peers = [w \in Sockets |-> "away"]
    /\ broadcast = NoBroadcast
    /\ reply = None

\* A webhook delivery: the handler calls parse_webhook_message(payload)
ParseWebhookMessage ==
    /\ pc = "idle"
    /\ \E p \in PayloadInputs :
        LET r == parse_webhook_message(p)
        IN  /\ payload_in' = p
            /\ payload' = r.data
            /\ outcome' = r.outcome
            /\ error' = r.error
            /\ msg' = r.msg
    /\ pc' = "parse_webhook_message"
    /\ UNCHANGED <<arg, ret>>
    /\ UNCHANGED clientVars
    /\ UNCHANGED sideVars

\* The caller is done with the result of the last call; the values are dropped
CallerReturn ==
    /\ pc # "idle"
    /\ pc' = "idle"
    /\ payload' = EmptyDict
    /\ payload_in' = EmptyDict
    /\ outcome' = "none"
    /\ error' = "none"
    /\ msg' = NoMsg
    /\ arg' = None
    /\ ret' = None
    /\ call' = NoCall
    /\ body' = None
    /\ requests' = 0
    /\ response' = NoResponse
    /\ status_code' = None
    /\ opened' = {}
    /\ UNCHANGED <<session, ctx>>
    /\ UNCHANGED appVars

\* A caller normalises a phone number
FormatPhone ==
    /\ pc = "idle"
    /\ \E ph \in PhoneInputs :
        LET r == format_phone(ph)
        IN  /\ arg' = ph
            /\ ret' = r.value
            /\ outcome' = r.outcome
            /\ error' = r.error
    /\ pc' = "format_phone"
    /\ UNCHANGED <<payload, payload_in, msg>>
    /\ UNCHANGED clientVars
    /\ UNCHANGED sideVars

\* A caller classifies a chat id
IsGroupId ==
    /\ pc = "idle"
    /\ \E id \in IdInputs :
        /\ arg' = id
        /\ ret' = is_group_id(id)
    /\ outcome' = "returned"
    /\ pc' = "is_group_id"
    /\ UNCHANGED <<payload, payload_in, error, msg>>
    /\ UNCHANGED clientVars
    /\ UNCHANGED sideVars

\* ZAPIClient.close -> GraphAPI.close -> self._session.aclose()
ZAPIClient_close(s) == "closed"

\* Variant of __aexit__ that closes only when the block ended without an error
aexit_skips_close_on_error(s, exc_type) ==
    IF exc_type = "none" THEN ZAPIClient_close(s) ELSE s

\* ZAPIClient.__aexit__(exc_type, ...): await self.close()
ZAPIClient_aexit(s, exc_type) == ZAPIClient_close(s)

\* The call ends before any request: a local error, or a closed session, on
\* which httpx raises RuntimeError from request()
EndsLocally(c, e, json) ==
    /\ call' = c
    /\ body' = json
    /\ outcome' = "raised"
    /\ error' = e
    /\ pc' = c.op
    /\ UNCHANGED <<requests, response, status_code, ret>>

\* The call reaches `await self._session.request(...)`
IssuesRequest(c, json) ==
    /\ call' = c
    /\ body' = json
    /\ requests' = requests + 1
    /\ pc' = "awaiting"
    /\ UNCHANGED <<outcome, error, response, status_code, ret>>

\* A caller uses the transport directly: GraphAPI.get / post / put / delete
ApiCall ==
    /\ pc = "idle"
    /\ \E method \in {"GET", "POST", "PUT", "DELETE"} :
        LET c == [op |-> "_make_request", args |-> [method |-> method], given |-> {}]
        IN  IF session = "closed" THEN EndsLocally(c, "RuntimeError", None)
            ELSE IssuesRequest(c, None)
    /\ UNCHANGED <<payload, payload_in, msg, arg, session, ctx>>
    /\ UNCHANGED sideVars

\* A caller starts a client operation; it runs up to its only await
ClientCall ==
    /\ pc = "idle"
    /\ \E c \in ClientCalls :
        LET q == Prepare(c.op, c.args)
        IN  /\ opened' = q.opened
            /\ IF q.outcome = "raised" THEN EndsLocally(c, q.error, None)
               ELSE IF session = "closed" THEN EndsLocally(c, "RuntimeError", q.json)
               ELSE IssuesRequest(c, q.json)
    /\ UNCHANGED <<payload, payload_in, msg, arg, session, ctx>>
    /\ UNCHANGED appVars

\* The awaited request is over: _make_request finishes, then the operation
Finish(r) ==
    LET res == Complete(call.op, _make_request(r))
    IN  /\ response' = r
        /\ outcome' = res.outcome
        /\ error' = res.error
        /\ status_code' = res.status_code
        /\ ret' = res.value
        /\ pc' = call.op
        /\ UNCHANGED <<payload, payload_in, msg, arg, call, body, requests,
                       session, ctx>>
        /\ UNCHANGED sideVars

\* Variant of Respond that sends the request again after a server error
RespondWithRetry ==
    /\ pc = "awaiting"
    /\ \E r \in Responses :
        IF r.status_code >= 500 /\ requests < 3
        THEN /\ requests' = requests + 1
             /\ UNCHANGED <<pc, payload, payload_in, outcome, error, msg, arg, ret,
                            call, body, response, status_code, session, ctx>>
             /\ UNCHANGED sideVars
        ELSE Finish(r)

\* The server answers
Respond ==
    /\ pc = "awaiting"
    /\ \E r \in Responses : Finish(r)

\* The session raises instead of answering
Fail ==
    /\ pc = "awaiting"
    /\ \E exc \in Failures : Finish(Failure(exc))

\* The caller enters `async with client:` (__aenter__ returns the client)
EnterContext ==
    /\ pc = "idle"
    /\ ctx = "none"
    /\ ctx' = "inside"
    /\ UNCHANGED <<pc, payload, payload_in, outcome, error, msg, arg, ret,
                   call, body, requests, response, status_code, session>>
    /\ UNCHANGED sideVars

\* The block is left: after its last statement, or by the error of the call
\* that has just raised in it
ExitContext ==
    /\ pc # "awaiting"
    /\ ctx = "inside"
    /\ ctx' = "left"
    /\ session' = ZAPIClient_aexit(session, error)
    /\ UNCHANGED <<pc, payload, payload_in, outcome, error, msg, arg, ret,
                   call, body, requests, response, status_code>>
    /\ UNCHANGED sideVars

\* The caller awaits client.close()
Close ==
    /\ pc = "idle"
    /\ session' = ZAPIClient_close(session)
    /\ UNCHANGED <<pc, payload, payload_in, outcome, error, msg, arg, ret,
                   call, body, requests, response, status_code, ctx>>
    /\ UNCHANGED sideVars

\* A caller builds a request body itself
BuildRequestBody ==
    /\ pc = "idle"
    /\ \E kwargs \in BodyInputs :
        /\ arg' = Dict(kwargs)
        /\ ret' = Dict(build_request_body(kwargs))
    /\ outcome' = "returned"
    /\ pc' = "build_request_body"
    /\ UNCHANGED <<payload, payload_in, error, msg>>
    /\ UNCHANGED clientVars
    /\ UNCHANGED sideVars

\* A caller formats a text
FormatTextMarkdown ==
    /\ pc = "idle"
    /\ \E text \in TextInputs, bold \in BOOLEAN, italic \in BOOLEAN,
          strikethrough \in BOOLEAN, monospace \in BOOLEAN :
        /\ arg' = [text |-> Text(text), bold |-> bold, italic |-> italic,
                   strikethrough |-> strikethrough, monospace |-> monospace]
        /\ ret' = Text(format_text_markdown(text, bold, italic, strikethrough,
                                            monospace))
    /\ outcome' = "returned"
    /\ pc' = "format_text_markdown"
    /\ UNCHANGED <<payload, payload_in, error, msg>>
    /\ UNCHANGED clientVars
    /\ UNCHANGED sideVars

\* The caller assigns to an attribute of the message it got from the parser:
\* the dataclasses are not frozen, so the assignment succeeds
SetAttr ==
    /\ pc = "parse_webhook_message"
    /\ outcome = "returned"
    /\ \E f \in AssignedFields :
        /\ msg.fields[f] # Changed
        /\ msg' = [msg EXCEPT !.fields[f] = Changed]
    /\ UNCHANGED <<pc, payload, payload_in, outcome, error, arg, ret>>
    /\ UNCHANGED clientVars
    /\ UNCHANGED sideVars

\* The caller writes into the dict it gave to the parser; the message's _raw
\* is that same dict
MutatePayload ==
    /\ pc = "parse_webhook_message"
    /\ outcome = "returned"
    /\ \E k \in AddedKeys :
        /\ Get(payload, k, None) # Changed
        /\ payload' = Dict((k :> Changed) @@ payload.o)
    /\ UNCHANGED <<pc, payload_in, outcome, error, msg, arg, ret>>
    /\ UNCHANGED clientVars
    /\ UNCHANGED sideVars

(***************************************************************************)
(* Concurrent callers                                                      *)
(***************************************************************************)
\* Caller c enters a function with its argument
Enter(c) ==
    /\ frames[c].stage = "idle"
    /\ \E k \in ConcurrentCalls :
        frames' = [frames EXCEPT ![c] = [fn |-> k.fn, input |-> k.input,
                                         stage |-> "running", result |-> None]]
    /\ UNCHANGED libVars
    /\ UNCHANGED <<active_connections, peers, broadcast, reply>>

\* The call of caller c runs to its end
Leave(c) ==
    /\ frames[c].stage = "running"
    /\ frames' = [frames EXCEPT ![c].stage = "done",
                                ![c].result = ResultOf(frames[c].fn, ArgumentOf(c))]
    /\ UNCHANGED libVars
    /\ UNCHANGED <<active_connections, peers, broadcast, reply>>

\* Caller c has used the result
Drop(c) ==
    /\ frames[c].stage = "done"
    /\ frames' = [frames EXCEPT ![c] = IdleFrame]
    /\ UNCHANGED libVars
    /\ UNCHANGED <<active_connections, peers, broadcast, reply>>

(***************************************************************************)
(* Webhook viewer                                                          *)
(***************************************************************************)
\* The code between two awaits runs without interruption: the other tasks of
\* the event loop run only while no broadcast is between its awaits, which is
\* every state of this model (a broadcast is idle, suspended in send_json, or
\* has returned)

\* websocket_endpoint -> manager.connect(websocket): accept, then append
Connect(w) ==
    /\ peers[w] = "away"
    /\ peers' = [peers EXCEPT ![w] = "open"]
    /\ active_connections' = Append(active_connections, w)
    /\ UNCHANGED <<broadcast, reply, frames>>
    /\ UNCHANGED libVars

\* The browser behind w closes its end
PeerCloses(w) ==
    /\ peers[w] = "open"
    /\ peers' = [peers EXCEPT ![w] = "closed"]
    /\ UNCHANGED <<active_connections, broadcast, reply, frames>>
    /\ UNCHANGED libVars

\* websocket_endpoint: receive_text raises WebSocketDisconnect ->
\* manager.disconnect(websocket)
Disconnect(w) ==
    /\ peers[w] = "closed"
    /\ peers' = [peers EXCEPT ![w] = "gone"]
    /\ active_connections' = Remove(active_connections, w)
    /\ broadcast' = IF broadcast.stage = "sending"
                    THEN [broadcast EXCEPT !.removed = @ \cup {w}]
                    ELSE broadcast
    /\ UNCHANGED <<reply, frames>>
    /\ UNCHANGED libVars

\* process_webhook: build the event, start manager.broadcast(event_data) and
\* run it up to its first await, or to its end when nobody is connected
ProcessWebhook ==
    /\ broadcast.stage = "idle"
    /\ LET b == ListIterNext([NoBroadcast EXCEPT
                                 !.started = Elements(active_connections)],
                             active_connections)
       IN  /\ broadcast' = b
           /\ reply' = IF b.stage = "returned" THEN Received ELSE None
    /\ UNCHANGED <<active_connections, peers, frames>>
    /\ UNCHANGED libVars

\* The connections that follow the one being sent to, in the list as it is
Following(b, list) == {list[i] : i \in (b.index + 1)..Len(list)}

\* One await connection.send_json(message) ends, by returning or by raising
\* (caught and logged); the loop goes on to the next await or to the end,
\* and then process_webhook returns
SendJsonEnds(raised) ==
    /\ broadcast.stage = "sending"
    /\ raised => peers[broadcast.connection] # "open"
    /\ LET w == broadcast.connection
           b == [broadcast EXCEPT
                    !.sends[w] = @ + 1,
                    !.failed = IF raised THEN @ \cup {w} ELSE @,
                    !.owed =
                        IF raised THEN @ \cup Following(broadcast, active_connections)
                        ELSE @]
           n == ListIterNext(b, active_connections)
       IN  /\ broadcast' =
                [n EXCEPT !.owed =
                    IF n.stage = "sending" THEN @ \ {n.connection} ELSE @]
           /\ reply' = IF n.stage = "returned" THEN Received ELSE None
    /\ UNCHANGED <<active_connections, peers, frames>>
    /\ UNCHANGED libVars

SendJsonReturns == SendJsonEnds(FALSE)
SendJsonRaises == SendJsonEnds(TRUE)

\* The vendor has its answer; the viewer waits for the next webhook
WebhookAnswered ==
    /\ broadcast.stage = "returned"
    /\ broadcast' = NoBroadcast
    /\ reply' = None
    /\ UNCHANGED <<active_connections, peers, frames>>
    /\ UNCHANGED libVars

Next ==
    \/ ParseWebhookMessage \/ FormatPhone \/ IsGroupId \/ CallerReturn
    \/ ApiCall \/ ClientCall \/ Respond \/ Fail
    \/ EnterContext \/ ExitContext \/ Close \/ BuildRequestBody
    \/ FormatTextMarkdown \/ SetAttr \/ MutatePayload
    \/ (\E c \in Callers : Enter(c) \/ Leave(c) \/ Drop(c))
    \/ (\E w \in Sockets : Connect(w) \/ PeerCloses(w) \/ Disconnect(w))
    \/ ProcessWebhook \/ SendJsonReturns \/ SendJsonRaises \/ WebhookAnswered

Spec == Init /\ [][Next]_vars

\* The components on their own
NextWebhook == ParseWebhookMessage \/ CallerReturn
SpecWebhook == Init /\ [][NextWebhook]_vars

NextPhone == FormatPhone \/ CallerReturn
SpecPhone == Init /\ [][NextPhone]_vars

NextGroup == IsGroupId \/ CallerReturn
SpecGroup == Init /\ [][NextGroup]_vars

NextMarkdown == FormatTextMarkdown \/ CallerReturn
SpecMarkdown == Init /\ [][NextMarkdown]_vars

\* A webhook handler that keeps working with the message and the payload
NextLifetime == ParseWebhookMessage \/ SetAttr \/ MutatePayload \/ CallerReturn
SpecLifetime == Init /\ [][NextLifetime]_vars

NextTransport == ApiCall \/ Respond \/ Fail \/ CallerReturn
SpecTransport == Init /\ [][NextTransport]_vars

NextClient ==
    \/ ClientCall \/ Respond \/ Fail \/ CallerReturn
    \/ EnterContext \/ ExitContext \/ Close \/ BuildRequestBody
SpecClient == Init /\ [][NextClient]_vars

\* Several callers inside the parser and the normalisers at once
NextConcurrent == \E c \in Callers : Enter(c) \/ Leave(c) \/ Drop(c)
SpecConcurrent == Init /\ [][NextConcurrent]_vars

\* The viewer: browsers come and go while webhooks are broadcast
NextViewer ==
    \/ (\E w \in Sockets : Connect(w) \/ PeerCloses(w) \/ Disconnect(w))
    \/ ProcessWebhook \/ SendJsonReturns \/ SendJsonRaises \/ WebhookAnswered
SpecViewer == Init /\ [][NextViewer]_vars

Parsed == pc = "parse_webhook_message"

(***************************************************************************)
(* Properties of the classifier                                            *)
(***************************************************************************)
\* The fixed priority order of the discriminator keys
KindOrder == <<"reaction", "text", "image", "video", "audio", "document",
               "sticker", "location", "contact">>

ClassOfKind(k) ==
    CASE k = "reaction" -> "ReactionMessage"
      [] k = "text" -> "TextMessage"
      [] k = "image" -> "ImageMessage"
      [] k = "video" -> "VideoMessage"
      [] k = "audio" -> "AudioMessage"
      [] k = "document" -> "DocumentMessage"
      [] k = "sticker" -> "StickerMessage"
      [] k = "location" -> "LocationMessage"
      [] k = "contact" -> "ContactMessage"
      [] OTHER -> "BaseWebhookMessage"

\* The first key of KindOrder that the payload holds, "none" if it holds none
FirstKind(p) ==
    LET I == {i \in 1..Len(KindOrder) : KindOrder[i] \in Keys(p)}
    IN  IF I = {} THEN "none"
        ELSE KindOrder[CHOOSE i \in I : \A j \in I : i <= j]

EnvelopeFields == RequiredFields \cup DOMAIN BaseDefaults

\* C1: parse_webhook_message never raises for a payload that is a JSON object;
\* when the selected kind key holds null, a string, a number or a list, a
\* message of the selected variant with default variant fields is returned.
C1_NeverRaises ==
    Parsed =>
        /\ outcome = "returned"
        /\ error = "none"
        /\ msg.cls = ClassOfKind(FirstKind(payload_in))
        /\ (FirstKind(payload_in) # "none"
              /\ ~IsDict(payload_in.o[FirstKind(payload_in)])
            => Restrict(msg.fields, DOMAIN OwnDefaults(msg.cls)) = OwnDefaults(msg.cls))

\* C2: every payload with a top-level `reaction` key is returned as a
\* ReactionMessage, whichever other kind keys it holds.
C2_ReactionFirst ==
    (Parsed /\ "reaction" \in Keys(payload_in))
        => (outcome = "returned" /\ msg.cls = "ReactionMessage")

\* C3: for every payload with a non-empty set of kind keys the variant returned
\* is that of the first present key in the order reaction, text, image, video,
\* audio, document, sticker, location, contact.
C3_FirstMatchWins ==
    (Parsed /\ FirstKind(payload_in) # "none")
        => (outcome = "returned" /\ msg.cls = ClassOfKind(FirstKind(payload_in)))

\* C4: a payload with none of the nine kind keys is returned as a plain
\* BaseWebhookMessage holding the envelope fields (and _raw) only.
C4_BaseFallback ==
    (Parsed /\ Keys(payload_in) \cap KindKeys = {})
        => /\ outcome = "returned"
           /\ msg.cls = "BaseWebhookMessage"
           /\ msg.cls \notin VariantClasses
           /\ DOMAIN msg.fields = EnvelopeFields \cup {"_raw"}

C4_Witness ==
    /\ Parsed
    /\ Keys(payload_in) \cap KindKeys = {}
    /\ "messageId" \in Keys(payload_in)
    /\ outcome = "returned"
    /\ msg.fields["message_id"] = Str("MSG1")

C6_CanonicalMomentWins ==
    (/\ Parsed
     /\ outcome = "returned"
     /\ {"moment", "momment"} \subseteq Keys(payload_in)
     /\ payload_in.o["moment"] # payload_in.o["momment"])
        => msg.fields["moment"] = payload_in.o["moment"]

\* C7: with exactly one of `moment` and `momment` present the parsed moment is
\* that key's value, for every variant; with neither it is 0.
C7_SingleTimestampKey ==
    LET K == Keys(payload_in) \cap {"moment", "momment"}
    IN  (Parsed /\ Cardinality(K) <= 1)
            => /\ outcome = "returned"
               /\ msg.fields["moment"] =
                      (IF K = {} THEN Num(0) ELSE payload_in.o[CHOOSE k \in K : TRUE])

\* C8: for a text payload, description is the value under `description` when
\* that sub-key is present (whatever its value), else the value under
\* `descritpion` when that is present, else null.
C8_DescriptionFallback ==
    (/\ Parsed
     /\ FirstKind(payload_in) = "text"
     /\ IsDict(payload_in.o["text"]))
        => /\ outcome = "returned"
           /\ msg.fields["description"] =
                  (LET text == payload_in.o["text"]
                   IN  IF "description" \in Keys(text) THEN text.o["description"]
                       ELSE IF "descritpion" \in Keys(text) THEN text.o["descritpion"]
                       ELSE None)

(***************************************************************************)
(* Properties of the normalisers                                           *)
(***************************************************************************)
Formatted == pc = "format_phone"
Classified == pc = "is_group_id"

\* The digit characters of a string, in order
RECURSIVE DigitsOf(_)
DigitsOf(s) ==
    IF s = <<>> THEN <<>>
    ELSE (IF Head(s) \in Digits THEN <<Head(s)>> ELSE <<>>) \o DigitsOf(Tail(s))

\* C9: format_phone returns exactly the digit characters of its input, in order
\* and with nothing added; it raises ValidationError exactly when the input has
\* fewer than 10 digits; a digits-only input of 10 or more is returned unchanged.
C9_FormatPhone ==
    Formatted =>
        LET digits == DigitsOf(PyStr(arg))
        IN  /\ (Len(digits) < 10 <=> (outcome = "raised" /\ error = "ValidationError"))
            /\ (Len(digits) >= 10 <=> (outcome = "returned" /\ ret = Text(digits)))
            /\ ((arg.t = "chars" /\ digits = arg.c /\ Len(digits) >= 10) => ret = arg)

C9_Witness ==
    /\ Formatted
    /\ arg.t = "chars"
    /\ outcome = "returned"
    /\ Len(ret.c) = 10
    /\ Len(arg.c) = 11
    /\ ret.c[1] # ret.c[2]

C9_WitnessRaised ==
    /\ Formatted
    /\ outcome = "raised"
    /\ Len(DigitsOf(PyStr(arg))) = 9

\* C10: is_group_id(id) is true exactly when id ends with `-group`, or id holds
\* a hyphen, does not end with `-group` and holds no `@`.
C10_GroupIdRule ==
    Classified =>
        ret = Bool(\/ EndsWith(arg.c, GroupMarker)
                   \/ (/\ \E i \in DOMAIN arg.c : arg.c[i] = "-"
                       /\ ~EndsWith(arg.c, GroupMarker)
                       /\ \A i \in DOMAIN arg.c : arg.c[i] # "@"))

(***************************************************************************)
(* Transport and client claims                                             *)
(***************************************************************************)
\* A direct transport call has completed
Transported == pc = "_make_request"

\* A client operation has completed
Operated == pc \in Operations

Answered == response.kind = "response"
Failed == response.kind = "failure"

\* The error class the documentation gives for an error status
ErrorClassOf(status) ==
    CASE status \in {401, 403} -> "AuthenticationError"
      [] status = 404 -> "InstanceError"
      [] status \in {405, 415} -> "ValidationError"
      [] status = 429 -> "RateLimitError"
      [] OTHER -> "ZAPIError"

\* C11: a response with status >= 400 ends the transport call with exactly
\* the error class of its status (401/403 authentication, 404 instance,
\* 405/415 validation, 429 rate limit, anything else the plain ZAPIError,
\* which is none of the subclasses), carrying the response's status
C11_StatusMapping ==
    (Transported /\ Answered /\ response.status_code >= 400) =>
        /\ outcome = "raised"
        /\ error = ErrorClassOf(response.status_code)
        /\ (response.status_code \notin {401, 403, 404, 405, 415, 429} =>
                error \notin ErrorSubclasses)
        /\ status_code = Num(response.status_code)

C11_Witness ==
    /\ Transported /\ Answered
    /\ response.status_code = 403
    /\ error = "AuthenticationError"
    /\ status_code = Num(403)

\* C12: the transport returns a value only for a status in 200..299; any
\* other status ends in a raised error
C12_ValueOnlyFor2xx ==
    (Transported /\ Answered /\ outcome = "returned") =>
        response.status_code \in 200..299

\* C13: a timeout or connection failure of the HTTP call ends the transport
\* call with NetworkError, never with a value or a status-mapped error
C13_NetworkFailure ==
    (Transported /\ Failed
        /\ response.exc \in httpx_TimeoutException \cup httpx_NetworkError) =>
        /\ outcome = "raised"
        /\ error = "NetworkError"
        /\ status_code = None

C13_Witness ==
    /\ Transported /\ Failed
    /\ response.exc = "httpx.ConnectError"
    /\ error = "NetworkError"

\* C14: a client operation issues at most one HTTP request; after an error
\* answer or a failure the request is not sent again and the caller gets
\* the error
C14_SingleRequest ==
    /\ requests <= 1
    /\ (Operated /\ (Failed \/ (Answered /\ response.status_code >= 400))) =>
            (outcome = "raised" /\ requests = 1)

C14_Witness ==
    /\ pc = "send_text"
    /\ Answered /\ response.status_code = 503
    /\ outcome = "raised" /\ error = "ZAPIError"
    /\ requests = 1

\* C15: whenever an `async with` block on the client has been left, normally
\* or by an error raised inside it, the HTTP session is closed; after an
\* explicit close() the session is closed as well
C15_SessionClosed ==
    [][(ctx' = "left" => session' = "closed") /\ (Close => session' = "closed")]_vars

\* The block was left by the error of an operation, and the session is closed
C15_Witness ==
    /\ ctx = "left"
    /\ Operated /\ outcome = "raised" /\ error = "RateLimitError"
    /\ session = "closed"

(***************************************************************************)
(* Predicates on parsed messages (types/webhook.py)                        *)
(***************************************************************************)
\* isinstance(msg, (ImageMessage, VideoMessage, AudioMessage, DocumentMessage,
\* StickerMessage)); no variant class derives from another variant
is_media_message(m) ==
    Bool(m.cls \in {"ImageMessage", "VideoMessage", "AudioMessage",
                    "DocumentMessage", "StickerMessage"})

MediaKinds == {"image", "video", "audio", "document", "sticker"}

\* C16: a payload parsed as image, video, audio, document or sticker gives a
\* message on which is_media_message is true; on text, location, contact,
\* reaction and base messages it is false
C16_MediaPredicate ==
    Parsed =>
        IF FirstKind(payload_in) \in MediaKinds
        THEN outcome = "returned" /\ is_media_message(msg).b
        ELSE outcome = "returned" => ~is_media_message(msg).b

(***************************************************************************)
(* Request body, markdown, sent message and message lifetime claims        *)
(***************************************************************************)
\* A send operation has handed its body to the transport
Posting == pc = "awaiting" /\ call.op \in SendOperations

\* The keyword parameters the caller of the current operation left unset
Unset == DOMAIN OptionalDefaults(call.op) \ call.given

\* build_request_body returned exactly the keys given with a value other
\* than None, each with the value given
BodyIsNonNoneKwargs ==
    pc = "build_request_body" =>
        /\ Keys(ret) = {k \in Keys(arg) : arg.o[k] # None}
        /\ \A k \in Keys(ret) : ret.o[k] = arg.o[k]

\* C17 as stated: build_request_body returns exactly the given keys whose
\* value is not None, values unchanged; and the body posted by a send
\* operation has no key for a keyword parameter that was left unset
C17_UnsetNeverPosted ==
    /\ BodyIsNonNoneKwargs
    /\ Posting => \A p \in Unset : BodyKey(p) \notin Keys(body)

\* C17 amended: build_request_body returns exactly the given keys whose
\* value is not None, values unchanged; the body posted by a send operation
\* holds no None, and a key of an unset keyword parameter only with that
\* parameter's declared default (viewOnce: false of send_image / send_video)
\* or, for send_document on a local file, with the file's name as fileName
C17_NoneNeverPosted ==
    /\ BodyIsNonNoneKwargs
    /\ Posting =>
        /\ \A k \in Keys(body) : body.o[k] # None
        /\ \A p \in Unset :
            BodyKey(p) \in Keys(body) =>
                \/ /\ p = "view_once"
                   /\ body.o[BodyKey(p)] = Bool(FALSE)
                \/ /\ call.op = "send_document" /\ p = "filename"
                   /\ IsFilePath(call.args.document)
                   /\ body.o[BodyKey(p)] = Text(PathName(call.args.document.c))

\* A send_text with delay_message=0 only: 0 is posted, the unset ones are not
C17_Witness ==
    /\ Posting /\ call.op = "send_text"
    /\ call.given = {"delay_message"}
    /\ Keys(body) = {"phone", "message", "delayMessage"}
    /\ body.o["delayMessage"] = Num(0)

Formatted_markdown == pc = "format_text_markdown"

Opening(a) ==
    (IF a.monospace THEN <<Fence>> ELSE <<>>)
        \o (IF a.strikethrough THEN <<"~">> ELSE <<>>)
        \o (IF a.italic THEN <<"_">> ELSE <<>>)
        \o (IF a.bold THEN <<"*">> ELSE <<>>)

Reversed(s) == [i \in 1..Len(s) |-> s[Len(s) + 1 - i]]

\* C18: format_text_markdown wraps in the order bold, italic, strikethrough,
\* monospace, each wrapper around the result of the previous one, so the
\* result reads (from outside in) monospace, strikethrough, italic, bold
\* around the text; with no flag the text comes back unchanged
C18_WrapperOrder ==
    Formatted_markdown =>
        /\ ret.c = Opening(arg) \o arg.text.c \o Reversed(Opening(arg))
        /\ (~arg.bold /\ ~arg.italic /\ ~arg.strikethrough /\ ~arg.monospace
                => ret = arg.text)

\* bold and italic on "x" give "_*x*_"
C18_Witness ==
    /\ Formatted_markdown
    /\ arg.text = Text(<<"x">>)
    /\ arg.bold /\ arg.italic /\ ~arg.strikethrough /\ ~arg.monospace
    /\ ret = Text(<<"_", "*", "x", "*", "_">>)

\* The JSON value _make_request handed to the operation
ResponseData == IF response.json = InvalidJson THEN EmptyDict ELSE response.json

\* C19: the SentMessage of a send operation has the response's `id` when the
\* response holds one and its `messageId` otherwise, so that without `id`
\* the fields id and message_id are equal
C19_IdFallback ==
    (pc \in SendOperations /\ Answered /\ outcome = "returned") =>
        /\ ret.id = IF "id" \in Keys(ResponseData) THEN ResponseData.o["id"]
                    ELSE Get(ResponseData, "messageId", Str(""))
        /\ ("id" \notin Keys(ResponseData) => ret.id = ret.message_id)

C19_Witness ==
    /\ pc = "send_text" /\ Answered /\ outcome = "returned"
    /\ ResponseData = Dict([zaapId |-> Str("Z1"), messageId |-> Str("M1")])
    /\ ret.id = Str("M1")
    /\ ret.message_id = Str("M1")

\* C20: from the moment parse_webhook_message has returned a message, no step
\* changes a typed field of the message or the payload its _raw refers to
C20_Immutable ==
    [][(Parsed /\ outcome = "returned" /\ pc' = pc) =>
            (msg' = msg /\ RawOf(msg)' = RawOf(msg))]_vars

(***************************************************************************)
(* C22: spellings of a phone number given to send_text                     *)
(***************************************************************************)
FullInternational ==
    Text(<<"5", "5", "1", "1", "9", "9", "9", "9", "9", "9", "9", "9", "9">>)

PostingText == Posting /\ call.op = "send_text"

PhonesOf(c) ==
    LET a == c.args
    IN  (IF "phone" \in DOMAIN a THEN {a.phone} ELSE {})
        \cup (IF "contact_phone" \in DOMAIN a THEN {a.contact_phone} ELSE {})
        \cup (IF "phones" \in DOMAIN a
              THEN {a.phones.l[i] : i \in 1..Len(a.phones.l)} ELSE {})

TooShort(phone) == Len(DigitsOf(PyStr(phone))) < MinPhoneDigits

\* An operation of the client is in progress or has just ended
InCall == call # NoCall /\ pc \in Operations \cup {"awaiting"}

\* C28: an operation given a phone number with fewer than 10 digits ends with
\* ValidationError, and no HTTP request was issued for that call: it never
\* waits for an answer and never got one
C28_ValidationBeforeNetwork ==
    (InCall /\ \E ph \in PhonesOf(call) : TooShort(ph)) =>
        /\ pc = call.op
        /\ outcome = "raised"
        /\ error = "ValidationError"
        /\ requests = 0
        /\ response = NoResponse
        /\ body = None

\* send_contact with a valid phone and a contact phone that is too short
C28_Witness ==
    /\ InCall
    /\ call.op = "send_contact"
    /\ ~TooShort(call.args.phone)
    /\ TooShort(call.args.contact_phone)
    /\ error = "ValidationError"
    /\ requests = 0

\* get_phone_code with a phone that is too short
C28_WitnessGet ==
    /\ InCall
    /\ call.op = "get_phone_code"
    /\ TooShort(call.args.phone)
    /\ error = "ValidationError"
    /\ requests = 0

(***************************************************************************)
(* C27: media given as URL, data URI or local file                         *)
(***************************************************************************)
MediaOperations ==
    {"send_image", "send_video", "send_audio", "send_document", "send_sticker"}

\* The media parameter of a media operation, also its key in the posted body
MediaParamOf(op) ==
    CASE op = "send_image" -> "image"
      [] op = "send_video" -> "video"
      [] op = "send_audio" -> "audio"
      [] op = "send_document" -> "document"
      [] op = "send_sticker" -> "sticker"

MediaCall == InCall /\ call.op \in MediaOperations
MediaGiven == call.args[MediaParamOf(call.op)]

\* A str that is_url or is_base64 accepts
AcceptedString(m) == m.t = "chars" /\ (is_url(m).b \/ is_base64(m).b)

\* data:<mime type of the file>;base64,<its content>
DataUriOf(path) == Text(<<"data:", get_mime_type(path), ";base64,", "QUJD">>)

\* C27: a media operation given a str that is_url or is_base64 accepts reads
\* no local file, fails before the request only for the phone or the closed
\* session, and posts the argument unchanged; given a Path or any other str it reads that file
\* and posts its base64 data URI, or raises when there is no such file
C27_MediaArgument ==
    MediaCall =>
        IF AcceptedString(MediaGiven)
        THEN /\ opened = {}
             /\ requests = 0 /\ outcome = "raised" /\ error = "ValidationError"
                    => TooShort(call.args.phone)
             /\ body # None => body.o[MediaParamOf(call.op)] = MediaGiven
        ELSE /\ opened = {MediaGiven.c} \cap Files
             /\ MediaGiven.c \notin Files
                    => /\ pc = call.op /\ outcome = "raised"
                       /\ error = "ValidationError" /\ requests = 0
             /\ body # None
                    => /\ body.o[MediaParamOf(call.op)] = DataUriOf(MediaGiven.c)
                       /\ opened = {MediaGiven.c}

\* send_image with a URL waits for the answer: the URL is in the body
C27_Witness ==
    /\ MediaCall
    /\ pc = "awaiting"
    /\ call.op = "send_image"
    /\ is_url(MediaGiven).b
    /\ body.o["image"] = MediaGiven
    /\ opened = {}

\* send_sticker with a data URI waits for the answer
C27_WitnessDataUri ==
    /\ MediaCall
    /\ pc = "awaiting"
    /\ call.op = "send_sticker"
    /\ is_base64(MediaGiven).b
    /\ body.o["sticker"] = MediaGiven
    /\ opened = {}

\* send_document with a str naming a local file waits for the answer
C27_WitnessFile ==
    /\ MediaCall
    /\ pc = "awaiting"
    /\ call.op = "send_document"
    /\ MediaGiven.t = "chars"
    /\ opened = {MediaGiven.c}
    /\ body.o["document"] = DataUriOf(MediaGiven.c)

(***************************************************************************)
(* C23: the message a reaction refers to                                   *)
(***************************************************************************)
ReactionOf(p) == p.o["reaction"]

\* A payload dispatched as reaction whose reaction is an object, and whose
\* referencedMessage, if any, is an object
ReactionParsed ==
    /\ Parsed
    /\ FirstKind(payload_in) = "reaction"
    /\ IsDict(ReactionOf(payload_in))
    /\ "referencedMessage" \in Keys(ReactionOf(payload_in))
          => IsDict(ReactionOf(payload_in).o["referencedMessage"])

\* C23: referenced_message of a parsed reaction is null exactly when the
\* reaction has no referencedMessage key; an object under that key, the empty
\* one included, gives a reference whose message id, from-self flag and phone
\* default to '', false and ''
C23_ReferencedMessage ==
    ReactionParsed =>
        /\ outcome = "returned"
        /\ msg.cls = "ReactionMessage"
        /\ msg.fields["referenced_message"] =
              IF "referencedMessage" \in Keys(ReactionOf(payload_in))
              THEN ReferencedMessage(ReactionOf(payload_in).o["referencedMessage"])
              ELSE None

(***************************************************************************)
(* C24: the delivery status                                                *)
(***************************************************************************)
\* C24: every payload parses to a message whose status is one of PENDING,
\* SENT, RECEIVED, READ, PLAYED, UNKNOWN, and it is UNKNOWN when the payload
\* has no status key or a status outside that set
C24_StatusEnum ==
    Parsed =>
        /\ outcome = "returned"
        /\ msg.fields["status"] \in StatusEnum
        /\ GetN(payload_in, "status") \notin StatusEnum
              => msg.fields["status"] = Str("UNKNOWN")

(***************************************************************************)
(* C25: keys present with null                                             *)
(***************************************************************************)
\* The payload without the keys it holds null under
WithoutNulls(p) == Dict(Restrict(p.o, {k \in Keys(p) : p.o[k] # None}))

\* C25: a payload parses to the same fields as the payload without its null
\* keys: message_id '', from_me and is_group false, moment 0 in place of null;
\* the string fields are strings, the flags booleans, moment a number
C25_NullAsAbsent ==
    Parsed =>
        /\ outcome = "returned"
        /\ msg.fields = parse_webhook_message(WithoutNulls(payload_in)).msg.fields
        /\ msg.fields["message_id"].t = "str"
        /\ msg.fields["from_me"].t = "bool"
        /\ msg.fields["is_group"].t = "bool"
        /\ msg.fields["moment"].t = "num"

(***************************************************************************)
(* C26: the kind predicates                                                *)
(***************************************************************************)
is_text_message(m) == Bool(m.cls = "TextMessage")
is_image_message(m) == Bool(m.cls = "ImageMessage")
is_video_message(m) == Bool(m.cls = "VideoMessage")
is_audio_message(m) == Bool(m.cls = "AudioMessage")
is_document_message(m) == Bool(m.cls = "DocumentMessage")
is_sticker_message(m) == Bool(m.cls = "StickerMessage")
is_location_message(m) == Bool(m.cls = "LocationMessage")
is_contact_message(m) == Bool(m.cls = "ContactMessage")
is_reaction_message(m) == Bool(m.cls = "ReactionMessage")
is_group_message(m) == m.fields["is_group"]
is_from_me(m) == m.fields["from_me"]

\* The kinds whose predicate answers True on m
KindsTrueOn(m) ==
    {k \in KindKeys :
        CASE k = "text" -> is_text_message(m).b
          [] k = "image" -> is_image_message(m).b
          [] k = "video" -> is_video_message(m).b
          [] k = "audio" -> is_audio_message(m).b
          [] k = "document" -> is_document_message(m).b
          [] k = "sticker" -> is_sticker_message(m).b
          [] k = "location" -> is_location_message(m).b
          [] k = "contact" -> is_contact_message(m).b
          [] k = "reaction" -> is_reaction_message(m).b}

\* C26: on the message parsed from a payload, the kind predicates that answer
\* True are exactly the one of the kind dispatch selected, none when the
\* payload has no kind key
C26_OnePredicate ==
    Parsed =>
        /\ outcome = "returned"
        /\ KindsTrueOn(msg) = {FirstKind(payload_in)} \cap KindKeys

\* What does hold: no predicate answers True on a base message, and a message
\* is never produced for a payload that has a kind key
C26_NoneOnBase ==
    (Parsed /\ outcome = "returned") =>
        /\ msg.cls = "BaseWebhookMessage"
        /\ KindsTrueOn(msg) = {}
        /\ FirstKind(payload_in) = "none"

(***************************************************************************)
(* C21: calls that run at the same time                                    *)
(***************************************************************************)
Running(c) == frames[c].stage = "running"
Done(c) == frames[c].stage = "done"

C21_FramesApart ==
    [][\A c \in Callers :
          (Leave(c) \/ Enter(c) \/ Drop(c))
              => \A d \in Callers \ {c} : frames'[d] = frames[d]]_vars

C21_WitnessMixed ==
    \E c, d \in Callers :
        /\ Done(c) /\ Running(d)
        /\ frames[c].fn = "parse_webhook_message"
        /\ frames[c].result.outcome = "returned"
        /\ frames[d].fn = "is_group_id"

(***************************************************************************)
(* C29, C30: the broadcast of the webhook viewer                           *)
(***************************************************************************)
BroadcastReturned == broadcast.stage = "returned"

\* The websockets registered from the start of the broadcast to its end
StayedRegistered == broadcast.started \ broadcast.removed

\* C29: when a broadcast has returned, every websocket that was registered
\* from its start to its end was sent the event exactly once, whatever
\* connected or disconnected while it was suspended in a send
C29_SentExactlyOnce ==
    BroadcastReturned => \A w \in StayedRegistered : broadcast.sends[w] = 1

\* What does hold: no websocket is sent an event twice, and none that was
\* not registered when the broadcast took it from the list
C29_AtMostOnce ==
    \A w \in Sockets : broadcast.sends[w] <= 1

\* C30: when a broadcast in which a send failed has returned, every connection
\* that followed a failing one and stayed registered was sent the event, and
\* process_webhook returned {"status": "received"}
C30_FailureDoesNotStop ==
    (BroadcastReturned /\ broadcast.failed # {}) =>
        /\ reply = Received
        /\ \A w \in broadcast.owed \ broadcast.removed : broadcast.sends[w] = 1

\* What does hold: a send that raises is caught, the loop takes the next
\* element its iterator yields, and process_webhook returns
\* {"status": "received"} whenever the broadcast returns
C30_ReplyReceived ==
    BroadcastReturned <=> reply = Received

C30_LoopGoesOn ==
    [][SendJsonRaises =>
          IF broadcast.index < Len(active_connections)
          THEN /\ broadcast'.stage = "sending"
               /\ broadcast'.connection = active_connections[broadcast.index + 1]
          ELSE /\ broadcast'.stage = "returned"
               /\ reply' = Received]_vars

====
